---- MODULE Spec2Model ----
(***************************************************************************)
(* Model of nl2sql/rate_limiter.py: class RateLimiter, a fixed-window      *)
(* limiter with a per-minute and a per-day token count, one lock, and the  *)
(* callers' threads running acquire, get_wait_time, get_stats and reset;    *)
(* and of nl2sql/cache.py: class QueryCache, a dictionary from the SHA-256  *)
(* digest of a prompt to (response, timestamp) with a time to live;         *)
(* and of nl2sql/llm_client.py: call_llm, which asks the cache first, then  *)
(* the limiter, then the generation backend.                                *)
(* and of nl2sql/validator.py: validate_sql, the staged check of a         *)
(* generated statement, with the handlers api/main.py generate_and_execute *)
(* and agents/team.py process_nl2sql_request that validate before they     *)
(* execute.                                                                 *)
(* Time is the value time.time() returns, in whole seconds.                *)
(***************************************************************************)
EXTENDS Integers, Naturals, Sequences, FiniteSets, TLC

\* ------------------------------------------------------------------ bounds
\* the limits a limiter is constructed with: 1 or MaxRpm, and 1 or MaxRpd
MaxRpm == 2
MaxRpd == 2
\* the number of calls the threads make in all
MaxCalls == 3
\* the number of calls made on the cache in all
MaxCacheCalls == 4
\* the number of calls of call_llm made in all
MaxLlmCalls == 2

\* ------------------------------------------------------- program constants
MinuteWindow == 60
DayWindow == 86400

\* the callers' threads
Threads == {1, 2}
\* by how much the clock advances between the constructor's two readings of it
\* (lines 32 and 36)
CtorSkew == {0, 1}
NoThread == 0
\* timeout=None of acquire
NoTimeout == -1
\* the value of timeout the threads pass when they call acquire themselves (a
\* short one, so that a retry loop runs out within a few clock steps;
\* call_llm passes LlmTimeout)
TimeoutChoices == {1}
\* the instants at which the clock is observed: at the start, at the end of
\* the first minute window, at the end of the day window, and a second before
Clock == {0, 1, 59, 60, 86399, 86400}
\* no call has returned
NoRet == [op |-> "none", val |-> 0]

\* cache.py line 16: the default ttl (llm_client.py line 32 passes the same)
DefaultTtl == 3600
\* the times to live a cache is constructed with: int(CACHE_TTL_SECONDS) is
\* not validated, so 0 is one of them
Ttls == {0, 1, 60}
\* the prompts passed to the cache, the empty prompt among them
Prompts == {"", "a", "b"}
\* the responses stored, the empty text among them
Responses == {"", "SELECT 1"}
\* Python's None, as returned by get on a miss and by set and clear
None == "<None>"
\* the instants at which the cache's clock is observed
CacheClock == {0, 1, 59, 60}
\* llm_client.py line 41: max_retries of call_llm
DefaultMaxRetries == 3
\* llm_client.py line 62: acquire(blocking=True, timeout=60)
LlmTimeout == 60
\* llm_client.py line 119: wait_time = 5 * (2 ** attempt)
BackoffBase == 5
\* the prompts call_llm is called with
LlmPrompts == {"a", "b"}
\* the texts the backend returns as message.content
BackendTexts == {" SELECT 1 ", "  "}
\* call_llm has not returned
NoLlmRet == [kind |-> "none", val |-> ""]
\* no call has been made on the cache
NoCacheRet == [op |-> "none", prompt |-> "", response |-> "", val |-> None]

VARIABLES
    now,                 \* time.time()
    ncalls,              \* number of calls made so far (bounded)
    rpm_limit, rpd_limit,
    minute_tokens, minute_last_refill,
    day_tokens, day_last_refill,
    total_requests, total_blocked,
    lock,                \* self._lock: the thread holding it, or NoThread
    pc,                  \* each thread's position
    blocking, timeout, start_time,   \* acquire's arguments and local
    ok,                  \* acquire: outcome of the test at line 86
    nested,              \* get_wait_time was called by get_stats (line 156)
    ret,                 \* at pc "returned": the value the call returned
    \* history (not program state)
    h_checks,            \* admission checks since construction / reset()
    h_grants,            \* acquire calls returned True since then
    h_mgrants,           \* grants since the minute window was last reset
    h_dgrants,           \* grants since the day window was last reset
    grantLog,            \* times of the latest grants since the last reset()
    pristine,            \* only non-blocking acquires so far, no window reset
    \* QueryCache
    ttl,                 \* self.ttl
    cache,               \* self._cache: digest -> [response, timestamp]
    hits, misses,        \* self._hits, self._misses
    cpc,                 \* each thread's position in cleanup_expired
    cur,                 \* cleanup_expired's local current_time
    ccalls,              \* number of calls made on the cache so far (bounded)
    cret,                \* the latest completed call on the cache: its
                         \* arguments and the value it returned
    \* history (not program state)
    h_set,               \* prompts passed to set since construction / clear()
    h_gets,              \* get calls completed since construction / clear()
    h_resps,             \* those of them that returned a response
    h_clears,            \* clear() calls since construction
    \* call_llm (llm_client.py)
    lpc,                 \* each thread's position in call_llm
    lprompt,             \* the argument prompt
    lattempt,            \* the loop variable attempt
    lwake,               \* the time at which time.sleep(wait_time) ends
    lret,                \* at lpc "done": how the call ended
    lcalls,              \* number of call_llm calls made so far (bounded)
    \* history (not program state)
    h_inv,               \* backend invocations made by the thread's call
    h_lgrants,           \* limiter grants taken by the thread's call
    h_before,            \* the cache's entries when the thread's call began
    \* validate_sql (validator.py) and the request handlers
    schema_info,         \* what db_manager.get_schema_info() returns
    vret,                \* the latest completed validate_sql call: its
                         \* arguments and the result it returned
    req,                 \* the request being handled: the handler and the
                         \* argument execute
    hpc,                 \* the handler's position
    hsql,                \* the handler's local sql
    hvalid,              \* the handler's local valid / is_valid
    retry_count,         \* process_nl2sql_request's local retry_count
    \* history (not program state)
    h_fresh,             \* sql was passed to validate since it was assigned
    \* get_rate_limiter (rate_limiter.py) and get_cache (cache.py)
    g_inst,              \* _global_limiter and _global_cache: the instance the
                         \* global names, NoInstance for None
    g_made,              \* the instances constructed so far, each with the
                         \* arguments of its constructor
    gpc,                 \* each thread's position in the accessor
    gwhich,              \* which accessor the thread is in
    garg,                \* the arguments of the thread's call
    gret,                \* the instance the thread's call returned
    gcalls,              \* number of accessor calls made so far (bounded)
    \* history (not program state)
    h_returned,          \* the instances the accessors have returned
    \* nl_to_sql (generator.py)
    npc,                 \* the position in nl_to_sql and in its call_llm
    nstage,              \* which call_llm of the attempt: "base" or "correction"
    nattempt,            \* the loop variable attempt
    nmax,                \* the argument max_retries
    nprompt,             \* the prompt passed to call_llm
    nresp,               \* what call_llm returned
    nret,                \* how nl_to_sql ended
    nlcalls,             \* number of nl_to_sql calls made so far (bounded)
    \* history (not program state)
    h_sent,              \* the prompts sent to the backend by this call
    h_validated,         \* the statements validated first in an attempt
    h_attempts,          \* the attempts begun by this call
    \* rate_limit_middleware (api/main.py)
    API_RATE_LIMIT,      \* int(os.getenv("API_RATE_LIMIT", "20"))
    api_rate_tracker,    \* the request times kept for each client address
    mpc,                 \* each request slot's position in the middleware
    mip,                 \* the slot's request.client.host
    mret,                \* the response of the slot's latest request
    mcalls,              \* number of requests made so far (bounded)
    \* history (not program state)
    h_admitted,          \* the times of the requests admitted, by address
    h_latest             \* each address's latest request: its time, and
                         \* whether it was admitted

limiterVars == <<rpm_limit, rpd_limit, minute_tokens, minute_last_refill,
                 day_tokens, day_last_refill, total_requests, total_blocked>>
threadVars == <<pc, blocking, timeout, start_time, ok, nested, ret>>
histVars == <<h_checks, h_grants, h_mgrants, h_dgrants, grantLog, pristine>>
cacheVars == <<ttl, cache, hits, misses, cpc, cur, ccalls, cret,
               h_set, h_gets, h_resps, h_clears>>
llmVars == <<lpc, lprompt, lattempt, lwake, lret, lcalls, h_inv, h_lgrants,
             h_before>>
handlerVars == <<req, hpc, hsql, hvalid, retry_count, h_fresh>>
singletonVars == <<g_inst, g_made, gpc, gwhich, garg, gret, gcalls, h_returned>>
nlVars == <<npc, nstage, nattempt, nmax, nprompt, nresp, nret, nlcalls,
            h_sent, h_validated, h_attempts>>
mwVars == <<API_RATE_LIMIT, api_rate_tracker, mpc, mip, mret, mcalls,
            h_admitted, h_latest>>
apiVars == <<singletonVars, nlVars, mwVars>>
sqlVars == <<schema_info, vret, handlerVars, apiVars>>
vars == <<now, ncalls, limiterVars, lock, threadVars, histVars, cacheVars,
          llmVars, sqlVars>>

\* ------------------------------------------------------------ pure helpers
Max(a, b) == IF a >= b THEN a ELSE b

\* mutant of WindowElapsed: the day window tested with the minute's duration
WindowElapsed_AlwaysMinute(t, last, window) == t - last >= MinuteWindow

\* mutant of WindowElapsed: > for >=
WindowElapsed_Strict(t, last, window) == t - last > window

\* line 56 / line 63: the window's duration has elapsed
WindowElapsed(t, last, window) == t - last >= window

\* mutant of RefillWindow: the window's start is not moved (line 58 / 65 lost)
RefillWindow_StampKept(tokens, last, limit, window, t) ==
    IF t - last >= window THEN <<limit, last>> ELSE <<tokens, last>>

\* lines 56-58 and 63-65: one window's <<tokens, last_refill>> after the refresh
RefillWindow(tokens, last, limit, window, t) ==
    IF WindowElapsed(t, last, window) THEN <<limit, t>> ELSE <<tokens, last>>

\* mutant of HasTokens: only the minute window is tested
HasTokens_MinuteOnly(m, d) == m > 0

\* line 86: the admission test
HasTokens(m, d) == m > 0 /\ d > 0

\* mutant of LockFree: no mutual exclusion
LockFree_NoLock == TRUE

\* `with self._lock` can be entered
LockFree == lock = NoThread

\* the lock's holder when a `with self._lock` block is left
Released == NoThread

\* mutant of WaitTime: max(0, ...) lost
WaitTime_NoMax(m, mlast, dlast, t) ==
    IF m <= 0 THEN MinuteWindow - (t - mlast) ELSE DayWindow - (t - dlast)

\* mutant of WaitTime: the shorter of the two windows' remaining times
WaitTime_Shorter(m, mlast, dlast, t) ==
    IF m <= 0
    THEN IF MinuteWindow - (t - mlast) <= DayWindow - (t - dlast)
         THEN Max(0, MinuteWindow - (t - mlast))
         ELSE Max(0, DayWindow - (t - dlast))
    ELSE Max(0, DayWindow - (t - dlast))

\* lines 132-137: the wait computed at time t
WaitTime(m, mlast, dlast, t) ==
    IF m <= 0 THEN Max(0, MinuteWindow - (t - mlast))
              ELSE Max(0, DayWindow - (t - dlast))

\* ------------------------------------------------------------------- Init
\* rate_limiter.py lines 27-43, with time.time() read at line 32 and again,
\* skew later, at line 36
LimiterInit(rpm, rpd, skew) ==
    /\ rpm_limit = rpm
    /\ rpd_limit = rpd
    /\ minute_tokens = rpm_limit
    /\ day_tokens = rpd_limit
    /\ minute_last_refill = 0
    /\ day_last_refill = skew
    /\ now = day_last_refill
    /\ ncalls = 0
    /\ total_requests = 0
    /\ total_blocked = 0
    /\ lock = NoThread
    /\ pc = [t \in Threads |-> "idle"]
    /\ blocking = [t \in Threads |-> FALSE]
    /\ timeout = [t \in Threads |-> NoTimeout]
    /\ start_time = [t \in Threads |-> 0]
    /\ ok = [t \in Threads |-> FALSE]
    /\ nested = [t \in Threads |-> FALSE]
    /\ ret = [t \in Threads |-> NoRet]
    /\ h_checks = 0
    /\ h_grants = 0
    /\ h_mgrants = 0
    /\ h_dgrants = 0
    /\ grantLog = <<>>
    /\ pristine = TRUE

\* cache.py lines 16-28: QueryCache(ttl=x)
CacheInit(x) ==
    /\ ttl = x
    /\ cache = <<>>
    /\ hits = 0
    /\ misses = 0
    /\ cpc = [t \in Threads |-> "idle"]
    /\ cur = [t \in Threads |-> 0]
    /\ ccalls = 0
    /\ cret = NoCacheRet
    /\ h_set = {}
    /\ h_gets = 0
    /\ h_resps = 0
    /\ h_clears = 0

\* ============================================================ validate_sql
\* nl2sql/validator.py.  A statement text is the sequence of its tokens: a
\* token is a maximal run of word characters (letters, digits, _) or one
\* character that is not a word character; Blank stands for a run of white
\* space.  The words of a text are thus exactly what the pattern \bWORD\b can
\* match, and str.upper, str.lower and str.strip act token by token.
Blank == " "

\* UNSAFE_KEYWORDS, in the order of the list
UNSAFE_KEYWORDS ==
    <<"DROP", "DELETE", "UPDATE", "INSERT", "TRUNCATE", "ALTER", "CREATE",
      "REPLACE", "GRANT", "REVOKE">>

\* the names the statements use for tables, columns and aliases
Identifiers ==
    {"customers", "Customers", "orders", "non_existent_table", "nowhere",
     "name", "Name", "invalid_column", "bogus", "c", "created_at"}

\* str.upper() of the tokens that have a lower-case letter
UpperTable ==
    "select" :> "SELECT" @@ "from" :> "FROM" @@ "drop" :> "DROP" @@
    "Drop" :> "DROP" @@ "table" :> "TABLE" @@ "update" :> "UPDATE" @@
    "delete" :> "DELETE" @@ "customers" :> "CUSTOMERS" @@
    "Customers" :> "CUSTOMERS" @@ "orders" :> "ORDERS" @@
    "non_existent_table" :> "NON_EXISTENT_TABLE" @@ "nowhere" :> "NOWHERE" @@
    "name" :> "NAME" @@ "Name" :> "NAME" @@
    "invalid_column" :> "INVALID_COLUMN" @@ "bogus" :> "BOGUS" @@
    "c" :> "C" @@ "created_at" :> "CREATED_AT" @@ "insert" :> "INSERT" @@
    "Truncate" :> "TRUNCATE" @@ "alter" :> "ALTER" @@ "create" :> "CREATE" @@
    "replace" :> "REPLACE" @@ "grant" :> "GRANT" @@ "Revoke" :> "REVOKE"
Upper(tok) == IF tok \in DOMAIN UpperTable THEN UpperTable[tok] ELSE tok

\* str.lower() of the identifiers that have an upper-case letter
LowerTable == "Customers" :> "customers" @@ "Name" :> "name"
Lower(tok) == IF tok \in DOMAIN LowerTable THEN LowerTable[tok] ELSE tok

\* sql_query.strip(): the text without its leading and trailing white space
StripText(text) ==
    LET solid == {i \in 1..Len(text) : text[i] # Blank}
    IN  IF solid = {} THEN <<>>
        ELSE SubSeq(text, CHOOSE i \in solid : \A j \in solid : i <= j,
                          CHOOSE i \in solid : \A j \in solid : i >= j)

\* line 23: not sql_query or not sql_query.strip()
IsEmptyQuery(sql_query) == Len(sql_query) = 0 \/ StripText(sql_query) = <<>>

\* re.search(r'\b' + keyword + r'\b', sql_upper)
KeywordFound_CaseSensitive(keyword, sql) ==
    \E i \in 1..Len(sql) : sql[i] = keyword
KeywordFound(keyword, sql) == \E i \in 1..Len(sql) : Upper(sql[i]) = keyword

\* lines 30-32: the first keyword of the list found in the text, or None
UnsafeKeyword(sql) ==
    LET found == {k \in 1..Len(UNSAFE_KEYWORDS) :
                      KeywordFound(UNSAFE_KEYWORDS[k], sql)}
    IN  IF found = {} THEN None
        ELSE UNSAFE_KEYWORDS[CHOOSE k \in found : \A j \in found : k <= j]

\* line 80: ';' in sql_query[:-1]
InteriorSemicolon_WholeText(sql) == \E i \in 1..Len(sql) : sql[i] = ";"
InteriorSemicolon(sql) == \E i \in 1..(Len(sql) - 1) : sql[i] = ";"

\* ------------------------------------------------------ sqlglot.parse_one
\* parse_one returns the syntax tree of the first statement of the text, and
\* raises ParseError for a text it cannot parse.  The statements here are of
\* the form SELECT item FROM table [alias] [, table [alias]], the item one of
\* *, column, qualifier.column and qualifier.*; every other text raises.
ParseRaises == [kind |-> "raises", tables |-> {}, aliases |-> {}, columns |-> <<>>]
Tree(tables, aliases, columns) ==
    [kind |-> "tree", tables |-> tables, aliases |-> aliases, columns |-> columns]

\* the tokens before the first semicolon, white space left out
FirstStatement(sql) ==
    LET semis == {i \in 1..Len(sql) : sql[i] = ";"}
        end == IF semis = {} THEN Len(sql)
               ELSE (CHOOSE i \in semis : \A j \in semis : i <= j) - 1
    IN  SelectSeq(SubSeq(sql, 1, end), LAMBDA tok : tok # Blank)

\* exp.Column nodes of a select item: column.table and column.name as written
\* (an unqualified column has the empty table; qualifier.* is a column named *)
ItemOk(item) ==
    \/ item = <<"*">>
    \/ Len(item) = 1 /\ item[1] \in Identifiers
    \/ Len(item) = 3 /\ item[1] \in Identifiers /\ item[2] = "."
                     /\ item[3] \in Identifiers \cup {"*"}
ItemColumns(item) ==
    IF item = <<"*">> THEN <<>>
    ELSE IF Len(item) = 1 THEN <<[table |-> "", name |-> item[1]]>>
    ELSE <<[table |-> item[1], name |-> item[3]]>>

\* exp.Table nodes of a FROM clause: table.name as written; an alias is not a
\* table
SourceOk(src) ==
    /\ Len(src) \in {1, 2}
    /\ \A i \in 1..Len(src) : src[i] \in Identifiers
RECURSIVE FromOk(_)
FromOk(clause) ==
    LET commas == {i \in 1..Len(clause) : clause[i] = ","}
    IN  IF commas = {} THEN SourceOk(clause)
        ELSE LET k == CHOOSE i \in commas : \A j \in commas : i <= j
             IN  /\ SourceOk(SubSeq(clause, 1, k - 1))
                 /\ FromOk(SubSeq(clause, k + 1, Len(clause)))
FromTables(clause) ==
    {clause[i] : i \in {j \in 1..Len(clause) :
                            /\ clause[j] # ","
                            /\ (j = 1 \/ clause[j - 1] = ",")}}

\* table.alias of the exp.Table nodes that have one (validate_sql does not
\* read it)
FromAliases(clause) ==
    {[alias |-> clause[i + 1], table |-> clause[i]] :
         i \in {j \in 1..(Len(clause) - 1) :
                    /\ clause[j] # "," /\ clause[j + 1] # ","
                    /\ (j = 1 \/ clause[j - 1] = ",")}}

ParseOne(sql) ==
    LET w == FirstStatement(sql)
        froms == {i \in 1..Len(w) : Upper(w[i]) = "FROM"}
    IN  IF Len(w) = 0 \/ Upper(w[1]) # "SELECT" \/ Cardinality(froms) # 1
        THEN ParseRaises
        ELSE LET f == CHOOSE i \in froms : TRUE
                 item == SubSeq(w, 2, f - 1)
                 clause == SubSeq(w, f + 1, Len(w))
             IN  IF ItemOk(item) /\ FromOk(clause)
                 THEN Tree(FromTables(clause), FromAliases(clause), ItemColumns(item))
                 ELSE ParseRaises

\* ----------------------------------------------------------- the messages
\* the returned message: which one of the function's texts it is, and the
\* names formatted into it
Msg(text, a, b) == [text |-> text, a |-> a, b |-> b]
EmptyMsg == Msg("Empty query provided", "", "")
UnsafeMsg(keyword) == Msg("Unsafe operation detected: {keyword} is not allowed", keyword, "")
ParseFailedMsg == Msg("Failed to parse SQL query", "", "")
SyntaxMsg == Msg("Syntax error: {str(e)}", "", "")
TableMsg(table) == Msg("Table '{table}' does not exist in schema", table, "")
ColumnMsg(column_name, table_name) ==
    Msg("Column '{column_name}' does not exist in table '{table_name}'",
        column_name, table_name)
MultipleMsg == Msg("Multiple statements not allowed", "", "")
ValidMsg == Msg("Query is valid", "", "")

Rejected(m) == [valid |-> FALSE, message |-> m]
Accepted == [valid |-> TRUE, message |-> ValidMsg]

\* ----------------------------------------------------------- schema stage
\* lines 49-58: the tables of the statement, lower-cased, each looked up in
\* allowed_tables; the loop runs over a set, so that of several missing tables
\* any one can be the one reported
TableFailures(parsed, allowed_tables) ==
    LET tables_in_query == {Lower(t) : t \in parsed.tables}
    IN  {TableMsg(table) : table \in {t \in tables_in_query : t \notin allowed_tables}}

\* lines 61-73: the first column of the statement that is qualified by a key of
\* schema_info and is not among that table's columns
ColumnChecked(column, catalog) ==
    /\ Lower(column.name) # "*"
    /\ column.table # ""
    /\ Lower(column.table) \in DOMAIN catalog
ColumnFails(column, catalog) ==
    /\ ColumnChecked(column, catalog)
    /\ Lower(column.name) \notin
           {Lower(col) : col \in catalog[Lower(column.table)]}
ColumnFailures(parsed, catalog) ==
    LET bad == {i \in 1..Len(parsed.columns) :
                    ColumnFails(parsed.columns[i], catalog)}
    IN  IF bad = {} THEN {}
        ELSE LET column == parsed.columns[CHOOSE i \in bad : \A j \in bad : i <= j]
             IN  {ColumnMsg(Lower(column.name), Lower(column.table))}

\* lines 43-77: the messages the schema stage can reject the statement with;
\* none when it passes, and none when introspection raises (the except clause
\* only prints a warning)
SchemaFailures_FailClosed(parsed, allowed, catalog, raises) ==
    IF raises THEN {SyntaxMsg}
    ELSE LET allowed_tables == IF allowed.given THEN allowed.tables ELSE DOMAIN catalog
             tables == TableFailures(parsed, allowed_tables)
         IN  IF tables # {} THEN tables ELSE ColumnFailures(parsed, catalog)
SchemaFailures(parsed, allowed, catalog, raises) ==
    IF raises THEN {}
    ELSE LET allowed_tables == IF allowed.given THEN allowed.tables ELSE DOMAIN catalog
             tables == TableFailures(parsed, allowed_tables)
         IN  IF tables # {} THEN tables ELSE ColumnFailures(parsed, catalog)

\* mutant of ValidateSql: the statement count is looked at before the schema
ValidateSql_CountBeforeSchema(sql_query, allowed, catalog, raises) ==
    IF IsEmptyQuery(sql_query) THEN {Rejected(EmptyMsg)}
    ELSE LET sql == StripText(sql_query)
             keyword == UnsafeKeyword(sql)
             parsed == ParseOne(sql)
             schema == SchemaFailures(parsed, allowed, catalog, raises)
         IN  IF keyword # None THEN {Rejected(UnsafeMsg(keyword))}
             ELSE IF parsed.kind = "raises" THEN {Rejected(SyntaxMsg)}
             ELSE IF parsed.kind = "none" THEN {Rejected(ParseFailedMsg)}
             ELSE IF InteriorSemicolon(sql) THEN {Rejected(MultipleMsg)}
             ELSE IF schema # {} THEN {Rejected(m) : m \in schema}
             ELSE {Accepted}

\* validate_sql(sql_query, allowed_tables): the results the call can return,
\* given what db_manager.get_schema_info() returns or that it raises
ValidateSql(sql_query, allowed, catalog, raises) ==
    IF IsEmptyQuery(sql_query) THEN {Rejected(EmptyMsg)}
    ELSE LET sql == StripText(sql_query)
             keyword == UnsafeKeyword(sql)
             parsed == ParseOne(sql)
             schema == SchemaFailures(parsed, allowed, catalog, raises)
         IN  IF keyword # None THEN {Rejected(UnsafeMsg(keyword))}
             ELSE IF parsed.kind = "raises" THEN {Rejected(SyntaxMsg)}
             ELSE IF parsed.kind = "none" THEN {Rejected(ParseFailedMsg)}
             ELSE IF schema # {} THEN {Rejected(m) : m \in schema}
             ELSE IF InteriorSemicolon(sql) THEN {Rejected(MultipleMsg)}
             ELSE {Accepted}

\* ------------------------------------------------- statements and catalogs
\* the statements of tests/validation_examples.py and their variants
SelectAll == <<"SELECT", " ", "*", " ", "FROM", " ", "customers">>
SelectOrders == <<"SELECT", " ", "*", " ", "FROM", " ", "orders">>
SelectUnknown == <<"SELECT", " ", "*", " ", "FROM", " ", "non_existent_table">>
DropTable == <<"DROP", " ", "TABLE", " ", "customers">>
\* the keywords the other statements do not have, in some letter case
MoreKeywords ==
    {"insert", "Truncate", "alter", "create", "replace", "grant", "Revoke"}
Statements ==
    {SelectOrders \o <<";", " ", keyword>> : keyword \in MoreKeywords} \cup
    { <<>>,
      <<" ">>,
      DropTable \o <<";">>,
      <<"drop", " ", "table", " ", "customers">>,
      SelectAll \o <<";", " ", "Drop", " ", "TABLE", " ", "customers">>,
      <<"update", " ", "orders", ";", " ", "delete", " ", "FROM", " ", "orders">>,
      <<"SELECT", " ", "created_at", " ", "FROM", " ", "orders">>,
      SelectAll,
      <<" ">> \o SelectAll \o <<";", " ">>,
      SelectAll \o <<";">>,
      <<"select", " ", "*", " ", "from", " ", "customers">>,
      SelectAll \o <<";", " ">> \o SelectOrders,
      SelectUnknown \o <<";">>,
      SelectUnknown \o <<";", " ">> \o SelectAll,
      SelectAll \o <<";", " ">> \o SelectUnknown,
      <<"SELECT", " ", "*", " ", "FROM", " ", "nowhere", ",", " ", "non_existent_table">>,
      <<"SELECT", " ", "*", " ", "FROM", " ", "customers", ",", " ", "orders">>,
      <<"SELECT", " ", "*", " ", "WHERE", " ", "name">>,
      <<"SELECT", " ", "*", " ", "WHERE", " ", "name", ";", " ">> \o SelectAll,
      <<"SELECT", " ", "invalid_column", " ", "FROM", " ", "customers", ";">>,
      <<"SELECT", " ", "name", " ", "FROM", " ", "customers">>,
      <<"SELECT", " ", "c", ".", "bogus", " ", "FROM", " ", "customers", " ", "c">>,
      <<"SELECT", " ", "c", ".", "name", " ", "FROM", " ", "customers", " ", "c">>,
      <<"SELECT", " ", "c", ".", "*", " ", "FROM", " ", "customers", " ", "c">>,
      <<"SELECT", " ", "customers", ".", "bogus", " ", "FROM", " ", "customers">>,
      <<"SELECT", " ", "customers", ".", "Name", " ", "FROM", " ", "customers">>,
      <<"SELECT", " ", "Customers", ".", "bogus", " ", "FROM", " ", "Customers">>,
      <<"SELECT", " ", "*", " ", "FROM", " ", "Customers">> }

\* get_schema_info(): table name -> the names of its columns, as declared
LowerCatalog ==
    "customers" :> {"customer_id", "name"} @@ "orders" :> {"order_id", "created_at"}
MixedCatalog ==
    "Customers" :> {"customer_id", "Name"} @@ "orders" :> {"order_id", "created_at"}
EmptyCatalog == [table \in {} |-> {}]
Catalogs == {LowerCatalog, MixedCatalog, EmptyCatalog}

\* the argument allowed_tables: None, or a list of table names
NoTables == [given |-> FALSE, tables |-> {}]
TableList(tables) == [given |-> TRUE, tables |-> tables]
AllowedChoices == {NoTables, TableList({"customers"}), TableList({"Customers", "orders"})}

NoValRet ==
    [done |-> FALSE, sql_query |-> <<>>, allowed |-> NoTables, raises |-> FALSE,
     result |-> [valid |-> FALSE, message |-> [text |-> "", a |-> "", b |-> ""]]]

\* no request is being handled
NoRequest == [handler |-> "none", execute |-> FALSE]
HandlerInit ==
    /\ req = NoRequest
    /\ hpc = "idle"
    /\ hsql = <<>>
    /\ hvalid = FALSE
    /\ retry_count = 0
    /\ h_fresh = FALSE

\* the accessors of the process-wide instances
Accessors == {"get_rate_limiter", "get_cache"}
NoInstance == 0
\* the arguments of an accessor call: rpm and rpd, or ttl
NoArgs == [rpm |-> 0, rpd |-> 0, ttl |-> 0]
\* both globals are None and nobody is in an accessor
SingletonInit ==
    /\ g_inst = [w \in Accessors |-> NoInstance]
    /\ g_made = [w \in Accessors |-> <<>>]
    /\ gpc = [t \in Threads |-> "idle"]
    /\ gwhich = [t \in Threads |-> "get_rate_limiter"]
    /\ garg = [t \in Threads |-> NoArgs]
    /\ gret = [t \in Threads |-> NoInstance]
    /\ gcalls = 0
    /\ h_returned = [w \in Accessors |-> {}]

\* the client addresses
Clients == {"10.0.0.1", "10.0.0.2"}
\* no response yet
NoResponse == [status |-> 0, remaining |-> 0]
\* the address has made no request
NoLatest == [seen |-> FALSE, time |-> 0, admitted |-> FALSE]
\* api/main.py lines 33-35: API_RATE_LIMIT = limit, an empty tracker
MiddlewareInit(limit) ==
    /\ API_RATE_LIMIT = limit
    /\ api_rate_tracker = [ip \in Clients |-> <<>>]
    /\ mpc = [t \in Threads |-> "idle"]
    /\ mip = [t \in Threads |-> ""]
    /\ mret = [t \in Threads |-> NoResponse]
    /\ mcalls = 0
    /\ h_admitted = [ip \in Clients |-> <<>>]
    /\ h_latest = [ip \in Clients |-> NoLatest]

\* nl_to_sql has not ended
NoNlRet == [kind |-> "none", val |-> ""]
\* nobody is in nl_to_sql
NlInit ==
    /\ npc = "idle"
    /\ nstage = "base"
    /\ nattempt = 0
    /\ nmax = 0
    /\ nprompt = ""
    /\ nresp = ""
    /\ nret = NoNlRet
    /\ nlcalls = 0
    /\ h_sent = {}
    /\ h_validated = {}
    /\ h_attempts = 0

\* api/main.py line 33: the default of API_RATE_LIMIT
DefaultApiRateLimit == 20

ApiInit == SingletonInit /\ NlInit /\ MiddlewareInit(DefaultApiRateLimit)

\* the database of init_database(), and no validate_sql call made
SqlInit ==
    /\ schema_info = LowerCatalog
    /\ vret = NoValRet
    /\ HandlerInit
    /\ ApiInit


\* no thread is in call_llm
LlmInit ==
    /\ lpc = [t \in Threads |-> "idle"]
    /\ lprompt = [t \in Threads |-> ""]
    /\ lattempt = [t \in Threads |-> 0]
    /\ lwake = [t \in Threads |-> 0]
    /\ lret = [t \in Threads |-> NoLlmRet]
    /\ lcalls = 0
    /\ h_inv = [t \in Threads |-> 0]
    /\ h_lgrants = [t \in Threads |-> 0]
    /\ h_before = [t \in Threads |-> <<>>]

\* a limiter with any limits within the bounds, and a cache nobody uses
Init ==
    /\ \E rpm \in {1, MaxRpm}, rpd \in {1, MaxRpd}, skew \in CtorSkew :
           LimiterInit(rpm, rpd, skew)
    /\ CacheInit(DefaultTtl)
    /\ LlmInit
    /\ SqlInit

\* ------------------------------------------------------------------ clock
\* Time passes to the next instant, between any two steps of the threads and
\* also while a lock is held. Two instants are at least a second apart, so a
\* thread in time.sleep(1) (line 116) has slept and is at line 81 again.
Tick ==
    /\ \E x \in Clock : x > now
    /\ now' = CHOOSE x \in Clock : x > now /\ \A y \in Clock : y > now => x <= y
    /\ pc' = [t \in Threads |-> IF pc[t] = "acq_sleep" THEN "acq_lock" ELSE pc[t]]
    /\ UNCHANGED <<ncalls, limiterVars, lock, blocking, timeout, start_time, ok,
                   nested, ret, histVars>>
    /\ UNCHANGED <<cacheVars, llmVars, sqlVars>>

\* a call has returned val: the caller holds it until its next step
Returned(t, o, v) ==
    /\ pc' = [pc EXCEPT ![t] = "returned"]
    /\ ret' = [ret EXCEPT ![t] = [op |-> o, val |-> v]]
    /\ blocking' = [blocking EXCEPT ![t] = FALSE]
    /\ timeout' = [timeout EXCEPT ![t] = NoTimeout]
    /\ start_time' = [start_time EXCEPT ![t] = 0]

\* the caller goes on
Continue(t) ==
    /\ pc[t] = "returned"
    /\ pc' = [pc EXCEPT ![t] = "idle"]
    /\ ret' = [ret EXCEPT ![t] = NoRet]
    /\ UNCHANGED <<sqlVars, now, ncalls, limiterVars, lock, blocking, timeout, start_time,
                   ok, nested, histVars>>
    /\ UNCHANGED <<cacheVars, llmVars, sqlVars>>

\* --------------------------------------------------------- _refill_tokens
\* lines 50-66, with current_time = now; the history counts restart with a window
RefillTokens ==
    LET m == RefillWindow(minute_tokens, minute_last_refill, rpm_limit, MinuteWindow, now)
        d == RefillWindow(day_tokens, day_last_refill, rpd_limit, DayWindow, now)
    IN  /\ minute_tokens' = m[1]
        /\ minute_last_refill' = m[2]
        /\ day_tokens' = d[1]
        /\ day_last_refill' = d[2]
        /\ h_mgrants' = IF m[2] # minute_last_refill THEN 0 ELSE h_mgrants
        /\ h_dgrants' = IF d[2] # day_last_refill THEN 0 ELSE h_dgrants
        /\ pristine' = (pristine /\ m[2] = minute_last_refill /\ d[2] = day_last_refill)

\* ---------------------------------------------------------------- acquire
\* lines 68, 79: the call; start_time = time.time(). A non-blocking call never
\* reads its timeout, and a call without a timeout never reads start_time
\* (lines 107-111), so these are kept at None and 0.
AcquireCall(t, b, to) ==
    /\ pc[t] = "idle"
    /\ ncalls < MaxCalls
    /\ ncalls' = ncalls + 1
    /\ b = FALSE => to = NoTimeout
    /\ pc' = [pc EXCEPT ![t] = "acq_lock"]
    /\ blocking' = [blocking EXCEPT ![t] = b]
    /\ timeout' = [timeout EXCEPT ![t] = to]
    /\ start_time' = [start_time EXCEPT ![t] = IF to = NoTimeout THEN 0 ELSE now]
    /\ pristine' = (pristine /\ ~b)
    /\ UNCHANGED <<now, limiterVars, lock, ok, nested, ret,
                   h_checks, h_grants, h_mgrants, h_dgrants, grantLog>>
    /\ UNCHANGED <<cacheVars, llmVars, sqlVars>>

\* lines 82-86: with self._lock, the refresh and the test of both windows
AcqCheck(t) ==
    /\ pc[t] = "acq_lock"
    /\ LockFree
    /\ lock' = t
    /\ RefillTokens
    /\ ok' = [ok EXCEPT ![t] = HasTokens(minute_tokens', day_tokens')]
    /\ pc' = [pc EXCEPT ![t] = "acq_upd"]
    /\ UNCHANGED <<now, ncalls, rpm_limit, rpd_limit, total_requests,
                   total_blocked, blocking, timeout, start_time, nested,
                   ret, h_checks, h_grants, grantLog>>
    /\ UNCHANGED <<cacheVars, llmVars, sqlVars>>

\* the grant times kept: the latest 2 * rpm_limit + 1
Latest(log) ==
    IF Len(log) > 2 * rpm_limit + 1 THEN SubSeq(log, 2, Len(log)) ELSE log

\* mutant of LockAfterDenied: the timeout test and the sleep inside the with block
LockAfterDenied_Held(t) == t

\* the lock's holder after a denied check of a blocking call: the with block
\* has ended (line 109) before the timeout test and the sleep
LockAfterDenied(t) == Released

\* mutant of AcqUpdate: a blocking call does not count its denied checks
AcqUpdate_BlockingUncounted(t) ==
    /\ pc[t] = "acq_upd"
    /\ h_checks' = h_checks + 1
    /\ ok' = [ok EXCEPT ![t] = FALSE]
    /\ IF ok[t]
       THEN /\ minute_tokens' = minute_tokens - 1
            /\ day_tokens' = day_tokens - 1
            /\ total_requests' = total_requests + 1
            /\ lock' = Released
            /\ Returned(t, "acquire", TRUE)
            /\ h_grants' = h_grants + 1
            /\ h_mgrants' = h_mgrants + 1
            /\ h_dgrants' = h_dgrants + 1
            /\ grantLog' = Latest(Append(grantLog, now))
            /\ UNCHANGED total_blocked
       ELSE /\ total_blocked' = IF blocking[t] THEN total_blocked
                                 ELSE total_blocked + 1
            /\ IF blocking[t]
               THEN /\ lock' = LockAfterDenied(t)
                    /\ pc' = [pc EXCEPT ![t] = "acq_timeout"]
                    /\ UNCHANGED <<ret, blocking, timeout, start_time>>
               ELSE /\ lock' = Released
                    /\ Returned(t, "acquire", FALSE)
            /\ UNCHANGED <<minute_tokens, day_tokens, total_requests,
                           h_grants, h_mgrants, h_dgrants, grantLog>>
    /\ UNCHANGED <<now, ncalls, rpm_limit, rpd_limit, minute_last_refill,
                   day_last_refill, nested, pristine>>
    /\ UNCHANGED <<cacheVars, llmVars, sqlVars>>

\* lines 87-95 (granted) and 97-108 (denied), to the end of the with block
AcqUpdate(t) ==
    /\ pc[t] = "acq_upd"
    /\ h_checks' = h_checks + 1
    /\ ok' = [ok EXCEPT ![t] = FALSE]
    /\ IF ok[t]
       THEN /\ minute_tokens' = minute_tokens - 1
            /\ day_tokens' = day_tokens - 1
            /\ total_requests' = total_requests + 1
            /\ lock' = Released
            /\ Returned(t, "acquire", TRUE)
            /\ h_grants' = h_grants + 1
            /\ h_mgrants' = h_mgrants + 1
            /\ h_dgrants' = h_dgrants + 1
            /\ grantLog' = Latest(Append(grantLog, now))
            /\ UNCHANGED total_blocked
       ELSE /\ total_blocked' = total_blocked + 1
            /\ IF blocking[t]
               THEN /\ lock' = LockAfterDenied(t)
                    /\ pc' = [pc EXCEPT ![t] = "acq_timeout"]
                    /\ UNCHANGED <<ret, blocking, timeout, start_time>>
               ELSE /\ lock' = Released
                    /\ Returned(t, "acquire", FALSE)
            /\ UNCHANGED <<minute_tokens, day_tokens, total_requests,
                           h_grants, h_mgrants, h_dgrants, grantLog>>
    /\ UNCHANGED <<now, ncalls, rpm_limit, rpd_limit, minute_last_refill,
                   day_last_refill, nested, pristine>>
    /\ UNCHANGED <<cacheVars, llmVars, sqlVars>>

\* line 111: the timeout has run out at time t
TimedOut(to, start, t) == to # NoTimeout /\ t - start >= to

\* lines 111-116: the timeout test, then time.sleep(1)
AcqTimeout(t) ==
    /\ pc[t] = "acq_timeout"
    /\ IF TimedOut(timeout[t], start_time[t], now)
       THEN Returned(t, "acquire", FALSE)
       ELSE /\ pc' = [pc EXCEPT ![t] = "acq_sleep"]
            /\ UNCHANGED <<ret, blocking, timeout, start_time>>
    /\ UNCHANGED <<sqlVars, now, ncalls, limiterVars, lock, ok, nested, histVars>>
    /\ UNCHANGED <<cacheVars, llmVars, sqlVars>>

\* ---------------------------------------------------------- get_wait_time
\* line 118: the call from outside
GetWaitTimeCall(t) ==
    /\ pc[t] = "idle"
    /\ ncalls < MaxCalls
    /\ ncalls' = ncalls + 1
    /\ pc' = [pc EXCEPT ![t] = "gwt_lock"]
    /\ UNCHANGED <<now, limiterVars, lock, blocking, timeout, start_time,
                   ok, nested, ret, histVars>>
    /\ UNCHANGED <<cacheVars, llmVars, sqlVars>>

\* lines 149-157: the record get_stats returns once get_wait_time has returned w
StatsRecord(w) ==
    [total_requests |-> total_requests,
     total_blocked |-> total_blocked,
     minute_tokens_remaining |-> minute_tokens,
     minute_tokens_limit |-> rpm_limit,
     day_tokens_remaining |-> day_tokens,
     day_tokens_limit |-> rpd_limit,
     estimated_wait_seconds |-> w]

\* get_wait_time returns w and leaves its with block; a call made by get_stats
\* (line 156) then completes get_stats with the record
GwtReturn(t, w) ==
    /\ lock' = Released
    /\ nested' = [nested EXCEPT ![t] = FALSE]
    /\ IF nested[t] THEN Returned(t, "get_stats", StatsRecord(w))
                    ELSE Returned(t, "get_wait_time", w)

\* lines 125-129: with self._lock (a threading.Lock: its holder waits as
\* well), the refresh; both windows have tokens: return 0.0
GwtRefill(t) ==
    /\ pc[t] = "gwt_lock"
    /\ LockFree
    /\ RefillTokens
    /\ IF HasTokens(minute_tokens', day_tokens')
       THEN GwtReturn(t, 0)
       ELSE /\ lock' = t
            /\ pc' = [pc EXCEPT ![t] = "gwt_calc"]
            /\ UNCHANGED <<nested, ret, blocking, timeout, start_time>>
    /\ UNCHANGED <<now, ncalls, rpm_limit, rpd_limit, total_requests,
                   total_blocked, ok, h_checks, h_grants, grantLog>>
    /\ UNCHANGED <<cacheVars, llmVars, sqlVars>>

\* lines 132-137: the wait, from a second reading of the clock
GwtCalc(t) ==
    /\ pc[t] = "gwt_calc"
    /\ GwtReturn(t, WaitTime(minute_tokens, minute_last_refill, day_last_refill, now))
    /\ UNCHANGED <<now, ncalls, limiterVars, ok, histVars>>
    /\ UNCHANGED <<cacheVars, llmVars, sqlVars>>

\* -------------------------------------------------------------- get_stats
\* line 139: the call
GetStatsCall(t) ==
    /\ pc[t] = "idle"
    /\ ncalls < MaxCalls
    /\ ncalls' = ncalls + 1
    /\ pc' = [pc EXCEPT ![t] = "gs_lock"]
    /\ UNCHANGED <<now, limiterVars, lock, blocking, timeout, start_time,
                   ok, nested, ret, histVars>>
    /\ UNCHANGED <<cacheVars, llmVars, sqlVars>>

\* lines 146-156: with self._lock, the refresh, then the call of
\* self.get_wait_time() with the lock still held
GsRefill(t) ==
    /\ pc[t] = "gs_lock"
    /\ LockFree
    /\ lock' = t
    /\ RefillTokens
    /\ pc' = [pc EXCEPT ![t] = "gwt_lock"]
    /\ nested' = [nested EXCEPT ![t] = TRUE]
    /\ UNCHANGED <<now, ncalls, rpm_limit, rpd_limit, total_requests,
                   total_blocked, blocking, timeout, start_time, ok,
                   ret, h_checks, h_grants, grantLog>>
    /\ UNCHANGED <<cacheVars, llmVars, sqlVars>>

\* ------------------------------------------------------------------ reset
\* line 159: the call
ResetCall(t) ==
    /\ pc[t] = "idle"
    /\ ncalls < MaxCalls
    /\ ncalls' = ncalls + 1
    /\ pc' = [pc EXCEPT ![t] = "rst_lock"]
    /\ UNCHANGED <<now, limiterVars, lock, blocking, timeout, start_time,
                   ok, nested, ret, histVars>>
    /\ UNCHANGED <<cacheVars, llmVars, sqlVars>>

\* lines 161-164: with self._lock, both token counts, and the minute window's
\* start from a first reading of the clock
RstMinute(t) ==
    /\ pc[t] = "rst_lock"
    /\ LockFree
    /\ lock' = t
    /\ minute_tokens' = rpm_limit
    /\ day_tokens' = rpd_limit
    /\ minute_last_refill' = now
    /\ pc' = [pc EXCEPT ![t] = "rst_day"]
    /\ h_mgrants' = 0
    /\ h_dgrants' = 0
    /\ grantLog' = <<>>
    /\ pristine' = FALSE
    /\ UNCHANGED <<now, ncalls, rpm_limit, rpd_limit, day_last_refill,
                   total_requests, total_blocked, blocking, timeout,
                   start_time, ok, nested, ret, h_checks, h_grants>>
    /\ UNCHANGED <<cacheVars, llmVars, sqlVars>>

\* mutant of RstDay: total_blocked is not cleared (line 167 lost)
RstDay_BlockedKept(t) ==
    /\ pc[t] = "rst_day"
    /\ day_last_refill' = now
    /\ total_requests' = 0
    /\ lock' = Released
    /\ Returned(t, "reset", 0)
    /\ h_checks' = 0
    /\ h_grants' = 0
    /\ UNCHANGED <<now, ncalls, rpm_limit, rpd_limit, minute_tokens,
                   minute_last_refill, day_tokens, total_blocked,
                   ok, nested, h_mgrants, h_dgrants, grantLog, pristine>>
    /\ UNCHANGED <<cacheVars, llmVars, sqlVars>>

\* lines 165-168: the day window's start from a second reading of the clock,
\* the counters, and the end of the with block
RstDay(t) ==
    /\ pc[t] = "rst_day"
    /\ day_last_refill' = now
    /\ total_requests' = 0
    /\ total_blocked' = 0
    /\ lock' = Released
    /\ Returned(t, "reset", 0)
    /\ h_checks' = 0
    /\ h_grants' = 0
    /\ UNCHANGED <<now, ncalls, rpm_limit, rpd_limit, minute_tokens,
                   minute_last_refill, day_tokens,
                   ok, nested, h_mgrants, h_dgrants, grantLog, pristine>>
    /\ UNCHANGED <<cacheVars, llmVars, sqlVars>>

\* ------------------------------------------------------------------- Next
ThreadStep(t) ==
    \/ \E b \in BOOLEAN, to \in TimeoutChoices \cup {NoTimeout} : AcquireCall(t, b, to)
    \/ AcqCheck(t)
    \/ AcqUpdate(t)
    \/ AcqTimeout(t)
    \/ GetWaitTimeCall(t)
    \/ GwtRefill(t)
    \/ GwtCalc(t)
    \/ GetStatsCall(t)
    \/ GsRefill(t)
    \/ ResetCall(t)
    \/ RstMinute(t)
    \/ RstDay(t)
    \/ Continue(t)

Next ==
    \/ Tick
    \/ \E t \in Threads : ThreadStep(t)

Spec == Init /\ [][Next]_vars

\* ============================================================ QueryCache
\* Every `with self._lock` block of cache.py runs to its end without calling
\* out, and the blocks exclude one another, so each block is one step.

\* mutant of Digest: every prompt has the same key
Digest_Constant(p) == "e3b0c442"

\* lines 30-32: hashlib.sha256(prompt.encode()).hexdigest(), here its first
\* eight characters
Digest(p) ==
    CASE p = "" -> "e3b0c442"
      [] p = "a" -> "ca978112"
      [] p = "b" -> "3e23e816"
      [] OTHER -> "sha256(" \o p \o ")"

\* mutant of Live: <= for <
Live_Inclusive(t, stamp, life) == t - stamp <= life

\* line 51: the entry stored at stamp is still valid at time t
Live(t, stamp, life) == t - stamp < life

\* mutant of Expired: expired a second early
Expired_Early(t, stamp, life) == t - stamp >= life - 1

\* mutant of Expired: > for >=
Expired_Strict(t, stamp, life) == t - stamp > life

\* line 116: the entry stored at stamp is expired at time t
Expired(t, stamp, life) == t - stamp >= life

\* del self._cache[key] for every key in ks
Without(c, ks) == [k \in DOMAIN c \ ks |-> c[k]]

\* mutant of With: an entry already stored is kept (setdefault)
With_KeepFirst(c, key, r, stamp) ==
    [k \in DOMAIN c \cup {key} |->
        IF k \in DOMAIN c THEN c[k] ELSE [response |-> r, timestamp |-> stamp]]

\* self._cache[key] = (response, timestamp)
With(c, key, r, stamp) ==
    [k \in DOMAIN c \cup {key} |->
        IF k = key THEN [response |-> r, timestamp |-> stamp] ELSE c[k]]

\* lines 92-93 and 101: round(hits / total * 100, 2), in hundredths of a
\* percent (no tie occurs for a total below 32)
HitRatePercent(h, m) ==
    IF h + m > 0 THEN (2 * h * 10000 + (h + m)) \div (2 * (h + m)) ELSE 0

\* lines 95-102: the record get_stats returns
CacheStats(c, h, m) ==
    [hits |-> h, misses |-> m, size |-> Cardinality(DOMAIN c),
     hit_rate_percent |-> HitRatePercent(h, m)]

\* a call on the cache is made
CacheCall ==
    /\ ccalls < MaxCacheCalls
    /\ ccalls' = ccalls + 1

\* mutant of CacheGet: an expired entry is deleted without counting a miss
CacheGet_ExpiredUncounted(p) ==
    LET key == Digest(p) IN
    /\ h_gets' = h_gets + 1
    /\ IF key \in DOMAIN cache /\ Live(now, cache[key].timestamp, ttl)
       THEN /\ hits' = hits + 1
            /\ cret' = [op |-> "get", prompt |-> p, response |-> "",
                        val |-> cache[key].response]
            /\ h_resps' = h_resps + 1
            /\ UNCHANGED <<cache, misses>>
       ELSE /\ cache' = Without(cache, {key})
            /\ misses' = IF key \in DOMAIN cache THEN misses ELSE misses + 1
            /\ cret' = [op |-> "get", prompt |-> p, response |-> "", val |-> None]
            /\ UNCHANGED <<hits, h_resps>>
    /\ UNCHANGED <<ttl, cpc, cur, h_set, h_clears>>

\* lines 34-62: get(prompt), as it acts on the cache; the clock is read inside
\* the with block
CacheGet(p) ==
    LET key == Digest(p) IN
    /\ h_gets' = h_gets + 1
    /\ IF key \in DOMAIN cache /\ Live(now, cache[key].timestamp, ttl)
       THEN /\ hits' = hits + 1
            /\ cret' = [op |-> "get", prompt |-> p, response |-> "",
                        val |-> cache[key].response]
            /\ h_resps' = h_resps + 1
            /\ UNCHANGED <<cache, misses>>
       ELSE /\ cache' = Without(cache, {key})
            /\ misses' = misses + 1
            /\ cret' = [op |-> "get", prompt |-> p, response |-> "", val |-> None]
            /\ UNCHANGED <<hits, h_resps>>
    /\ UNCHANGED <<ttl, cpc, cur, h_set, h_clears>>

\* a thread calls get(prompt) on the cache
GetCall(t, p) ==
    /\ cpc[t] = "idle"
    /\ CacheCall
    /\ CacheGet(p)
    /\ UNCHANGED <<sqlVars, now, ncalls, limiterVars, lock, threadVars, histVars, llmVars>>

\* lines 64-76: set(prompt, response), as it acts on the cache
CacheSet(p, r) ==
    /\ cache' = With(cache, Digest(p), r, now)
    /\ cret' = [op |-> "set", prompt |-> p, response |-> r, val |-> None]
    /\ h_set' = h_set \cup {p}
    /\ UNCHANGED <<ttl, hits, misses, cpc, cur, h_gets, h_resps, h_clears>>

\* a thread calls set(prompt, response) on the cache
SetCall(t, p, r) ==
    /\ cpc[t] = "idle"
    /\ CacheCall
    /\ CacheSet(p, r)
    /\ UNCHANGED <<sqlVars, now, ncalls, limiterVars, lock, threadVars, histVars, llmVars>>

\* mutant of CacheClear: the miss counter is kept (line 83 lost)
CacheClear_MissesKept(t) ==
    /\ cpc[t] = "idle"
    /\ CacheCall
    /\ cache' = <<>>
    /\ hits' = 0
    /\ cret' = [op |-> "clear", prompt |-> "", response |-> "", val |-> None]
    /\ h_set' = {}
    /\ h_gets' = 0
    /\ h_resps' = 0
    /\ UNCHANGED <<sqlVars, now, ncalls, limiterVars, lock, threadVars, histVars,
                   ttl, misses, cpc, cur>>
    /\ h_clears' = h_clears + 1
    /\ UNCHANGED llmVars

\* lines 78-84: clear()
CacheClear(t) ==
    /\ cpc[t] = "idle"
    /\ CacheCall
    /\ cache' = <<>>
    /\ hits' = 0
    /\ misses' = 0
    /\ cret' = [op |-> "clear", prompt |-> "", response |-> "", val |-> None]
    /\ h_set' = {}
    /\ h_gets' = 0
    /\ h_resps' = 0
    /\ UNCHANGED <<sqlVars, now, ncalls, limiterVars, lock, threadVars, histVars,
                   ttl, cpc, cur>>
    /\ h_clears' = h_clears + 1
    /\ UNCHANGED llmVars

\* lines 86-102: get_stats()
CacheGetStats(t) ==
    /\ cpc[t] = "idle"
    /\ CacheCall
    /\ cret' = [op |-> "get_stats", prompt |-> "", response |-> "",
                val |-> CacheStats(cache, hits, misses)]
    /\ UNCHANGED <<sqlVars, now, ncalls, limiterVars, lock, threadVars, histVars,
                   ttl, cache, hits, misses, cpc, cur, h_set, h_gets, h_resps>>
    /\ UNCHANGED h_clears
    /\ UNCHANGED llmVars

\* lines 104-111: cleanup_expired() reads the clock before it takes the lock
CleanupCall(t) ==
    /\ cpc[t] = "idle"
    /\ CacheCall
    /\ cur' = [cur EXCEPT ![t] = now]
    /\ cpc' = [cpc EXCEPT ![t] = "cln_lock"]
    /\ UNCHANGED <<sqlVars, now, ncalls, limiterVars, lock, threadVars, histVars,
                   ttl, cache, hits, misses, cret, h_set, h_gets, h_resps>>
    /\ UNCHANGED h_clears
    /\ UNCHANGED llmVars

\* lines 113-127: the with block of cleanup_expired()
CleanupSweep(t) ==
    LET expired_keys ==
            {k \in DOMAIN cache : Expired(cur[t], cache[k].timestamp, ttl)}
    IN  /\ cpc[t] = "cln_lock"
        /\ cache' = Without(cache, expired_keys)
        /\ cret' = [op |-> "cleanup_expired", prompt |-> "", response |-> "",
                    val |-> Cardinality(expired_keys)]
        /\ cpc' = [cpc EXCEPT ![t] = "idle"]
        /\ cur' = [cur EXCEPT ![t] = 0]
        /\ UNCHANGED <<sqlVars, now, ncalls, limiterVars, lock, threadVars, histVars,
                       ttl, hits, misses, ccalls, h_set, h_gets, h_resps>>
        /\ UNCHANGED h_clears
        /\ UNCHANGED llmVars

\* time passes to the cache's next instant
CacheTick ==
    /\ \E x \in CacheClock : x > now
    /\ now' = CHOOSE x \in CacheClock : x > now /\ \A y \in CacheClock : y > now => x <= y
    /\ UNCHANGED <<sqlVars, ncalls, limiterVars, lock, threadVars, histVars, cacheVars,
                   llmVars>>

CacheStep(t) ==
    \/ \E p \in Prompts : GetCall(t, p)
    \/ \E p \in Prompts, r \in Responses : SetCall(t, p, r)
    \/ CacheClear(t)
    \/ CacheGetStats(t)
    \/ CleanupCall(t)
    \/ CleanupSweep(t)

CacheNext ==
    \/ CacheTick
    \/ \E t \in Threads : CacheStep(t)

\* a cache with any of the times to live, used by the threads; the limiter idle
CacheSpecInit ==
    /\ LimiterInit(MaxRpm, MaxRpd, 0)
    /\ \E x \in Ttls : CacheInit(x)
    /\ LlmInit
    /\ SqlInit

CacheSpec == CacheSpecInit /\ [][CacheNext]_vars

\* ================================================= the observability reads
\* llm_client.py lines 196-202: get_cache_stats() and get_rate_limit_stats()
\* read the module's cache and limiter while requests use them. The requests
\* are non-blocking acquires on the limiter and set and get of one prompt on
\* the cache.
ObsPrompt == "a"
ObsResponse == "SELECT 1"
\* the number of calls made on the cache while the limiter is observed
MaxObsCacheCalls == 3

ObsLimiterStep(t) ==
    \/ AcquireCall(t, FALSE, NoTimeout)
    \/ AcqCheck(t)
    \/ AcqUpdate(t)
    \/ Continue(t)
    \/ GetStatsCall(t)
    \/ GsRefill(t)

ObsCacheStep(t) ==
    \/ ccalls < MaxObsCacheCalls /\ SetCall(t, ObsPrompt, ObsResponse)
    \/ ccalls < MaxObsCacheCalls /\ GetCall(t, ObsPrompt)
    \/ ccalls < MaxObsCacheCalls /\ CacheGetStats(t)

ObsNext ==
    \/ Tick
    \/ \E t \in Threads : ObsLimiterStep(t)
    \/ ObsCacheStep(1)

ObsInit ==
    /\ LimiterInit(MaxRpm, MaxRpd, 0)
    /\ CacheInit(DefaultTtl)
    /\ LlmInit
    /\ SqlInit

ObsSpec == ObsInit /\ [][ObsNext]_vars

\* =============================================================== call_llm
\* llm_client.py lines 41-126, run by the callers' threads on the module's
\* cache and limiter (lines 36-37).

\* line 90: str.strip() of the backend's texts
Strip(x) ==
    CASE x = " SELECT 1 " -> "SELECT 1"
      [] x = "  " -> ""
      [] OTHER -> x

\* line 57: `if cached_response:`; None and the empty string are false
Truthy(v) == v # None /\ v # ""

\* line 119: the backoff after a failed attempt
Backoff(attempt) == BackoffBase * (2 ^ attempt)

\* calls on the limiter that thread t's call_llm may still make: acquire
\* (line 62) and, if that returns False, get_wait_time (line 63)
Reserve(t) ==
    CASE lpc[t] = "miss" /\ pc[t] = "idle" -> 2
      [] lpc[t] = "miss" /\ pc[t] # "idle" -> 1
      [] lpc[t] = "denied" /\ pc[t] = "idle" -> 1
      [] OTHER -> 0

RECURSIVE Reserved(_)
Reserved(S) ==
    IF S = {} THEN 0
    ELSE LET t == CHOOSE x \in S : TRUE IN Reserve(t) + Reserved(S \ {t})

\* how call_llm ended
LlmRet(k, v) == [kind |-> k, val |-> v]

\* lines 41-59: the call, cache.get(prompt) and the test of what it returned
LlmCall(t, p) ==
    /\ lpc[t] = "idle" /\ pc[t] = "idle"
    /\ lcalls < MaxLlmCalls
    /\ lcalls' = lcalls + 1
    /\ CacheGet(p)
    /\ Truthy(cret'.val) \/ ncalls + Reserved(Threads) + 2 <= MaxCalls
    /\ lprompt' = [lprompt EXCEPT ![t] = p]
    /\ IF Truthy(cret'.val)
       THEN /\ lpc' = [lpc EXCEPT ![t] = "done"]
            /\ lret' = [lret EXCEPT ![t] = LlmRet("cached", cret'.val)]
       ELSE /\ lpc' = [lpc EXCEPT ![t] = "miss"]
            /\ UNCHANGED lret
    /\ UNCHANGED <<sqlVars, now, ncalls, limiterVars, lock, threadVars, histVars,
                   ccalls, lattempt, lwake, h_inv, h_lgrants>>
    /\ h_before' = [h_before EXCEPT ![t] = cache]

\* line 62: rate_limiter.acquire(blocking=True, timeout=60) is called
LlmAcquire(t) ==
    /\ lpc[t] = "miss"
    /\ AcquireCall(t, TRUE, LlmTimeout)

\* line 62: acquire has returned
LlmAcquired(t) ==
    /\ lpc[t] = "miss"
    /\ pc[t] = "returned" /\ ret[t].op = "acquire"
    /\ pc' = [pc EXCEPT ![t] = "idle"]
    /\ ret' = [ret EXCEPT ![t] = NoRet]
    /\ IF ret[t].val
       THEN /\ lpc' = [lpc EXCEPT ![t] = "backend"]
            /\ h_lgrants' = [h_lgrants EXCEPT ![t] = h_lgrants[t] + 1]
       ELSE /\ lpc' = [lpc EXCEPT ![t] = "denied"]
            /\ UNCHANGED h_lgrants
    /\ UNCHANGED <<sqlVars, now, ncalls, limiterVars, lock, blocking, timeout, start_time,
                   ok, nested, histVars, cacheVars, lprompt, lattempt, lwake,
                   lret, lcalls, h_inv, h_before>>

\* line 63: rate_limiter.get_wait_time() is called for the error message
LlmWaitTime(t) ==
    /\ lpc[t] = "denied"
    /\ GetWaitTimeCall(t)

\* lines 64-69: raise Exception("Rate limit exceeded (timeout) ...")
LlmRaiseLimit(t) ==
    /\ lpc[t] = "denied"
    /\ pc[t] = "returned" /\ ret[t].op = "get_wait_time"
    /\ pc' = [pc EXCEPT ![t] = "idle"]
    /\ ret' = [ret EXCEPT ![t] = NoRet]
    /\ lpc' = [lpc EXCEPT ![t] = "done"]
    /\ lret' = [lret EXCEPT ![t] = LlmRet("raise", "Rate limit exceeded")]
    /\ UNCHANGED <<sqlVars, now, ncalls, limiterVars, lock, blocking, timeout, start_time,
                   ok, nested, histVars, cacheVars, lprompt, lattempt, lwake,
                   lcalls, h_inv, h_lgrants, h_before>>

\* lines 71-100: the backend returns a choice with content x; the stripped
\* text is cached and returned (the get_stats() calls of lines 97-98 change
\* nothing)
LlmBackendText(t, x) ==
    /\ lpc[t] = "backend"
    /\ h_inv' = [h_inv EXCEPT ![t] = h_inv[t] + 1]
    /\ CacheSet(lprompt[t], Strip(x))
    /\ lpc' = [lpc EXCEPT ![t] = "done"]
    /\ lret' = [lret EXCEPT ![t] = LlmRet("fresh", Strip(x))]
    /\ UNCHANGED <<sqlVars, now, ncalls, limiterVars, lock, threadVars, histVars,
                   ccalls, lprompt, lattempt, lwake, lcalls, h_lgrants, h_before>>

\* mutant of LlmBackendFails: a call that raises gives its token back
LlmBackendFails_Refund(t, quota) ==
    /\ lpc[t] = "backend"
    /\ h_inv' = [h_inv EXCEPT ![t] = h_inv[t] + 1]
    /\ IF quota
       THEN /\ lpc' = [lpc EXCEPT ![t] = "done"]
            /\ lret' = [lret EXCEPT ![t] = LlmRet("raise", "quota exceeded")]
            /\ UNCHANGED lwake
       ELSE IF lattempt[t] < DefaultMaxRetries - 1
            THEN /\ lpc' = [lpc EXCEPT ![t] = "backoff"]
                 /\ lwake' = [lwake EXCEPT ![t] = now + Backoff(lattempt[t])]
                 /\ UNCHANGED lret
            ELSE /\ lpc' = [lpc EXCEPT ![t] = "done"]
                 /\ lret' = [lret EXCEPT ![t] = LlmRet("raise", "Failed to call")]
                 /\ UNCHANGED lwake
    /\ IF lpc'[t] = "done"
       THEN /\ minute_tokens' = minute_tokens + 1
            /\ day_tokens' = day_tokens + 1
       ELSE UNCHANGED <<minute_tokens, day_tokens>>
    /\ UNCHANGED <<rpm_limit, rpd_limit, minute_last_refill, day_last_refill,
                   total_requests, total_blocked>>
    /\ UNCHANGED <<sqlVars, now, ncalls, lock, threadVars, histVars,
                   cacheVars, lprompt, lattempt, lcalls, h_lgrants, h_before>>

\* lines 101-124: the backend returns no choice or raises; for a quota error
\* (line 108) the call raises, otherwise it sleeps and tries again while
\* attempt < max_retries - 1
LlmBackendFails(t, quota) ==
    /\ lpc[t] = "backend"
    /\ h_inv' = [h_inv EXCEPT ![t] = h_inv[t] + 1]
    /\ IF quota
       THEN /\ lpc' = [lpc EXCEPT ![t] = "done"]
            /\ lret' = [lret EXCEPT ![t] = LlmRet("raise", "quota exceeded")]
            /\ UNCHANGED lwake
       ELSE IF lattempt[t] < DefaultMaxRetries - 1
            THEN /\ lpc' = [lpc EXCEPT ![t] = "backoff"]
                 /\ lwake' = [lwake EXCEPT ![t] = now + Backoff(lattempt[t])]
                 /\ UNCHANGED lret
            ELSE /\ lpc' = [lpc EXCEPT ![t] = "done"]
                 /\ lret' = [lret EXCEPT ![t] = LlmRet("raise", "Failed to call")]
                 /\ UNCHANGED lwake
    /\ UNCHANGED <<sqlVars, now, ncalls, limiterVars, lock, threadVars, histVars,
                   cacheVars, lprompt, lattempt, lcalls, h_lgrants, h_before>>

\* lines 120 and 71: time.sleep(wait_time) has ended; the next attempt
LlmRetry(t) ==
    /\ lpc[t] = "backoff"
    /\ now >= lwake[t]
    /\ lpc' = [lpc EXCEPT ![t] = "backend"]
    /\ lattempt' = [lattempt EXCEPT ![t] = lattempt[t] + 1]
    /\ lwake' = [lwake EXCEPT ![t] = 0]
    /\ UNCHANGED <<sqlVars, now, ncalls, limiterVars, lock, threadVars, histVars,
                   cacheVars, lprompt, lret, lcalls, h_inv, h_lgrants, h_before>>

\* the caller of call_llm goes on
LlmDone(t) ==
    /\ lpc[t] = "done"
    /\ lpc' = [lpc EXCEPT ![t] = "idle"]
    /\ lprompt' = [lprompt EXCEPT ![t] = ""]
    /\ lattempt' = [lattempt EXCEPT ![t] = 0]
    /\ lret' = [lret EXCEPT ![t] = NoLlmRet]
    /\ h_inv' = [h_inv EXCEPT ![t] = 0]
    /\ h_lgrants' = [h_lgrants EXCEPT ![t] = 0]
    /\ h_before' = [h_before EXCEPT ![t] = <<>>]
    /\ UNCHANGED <<sqlVars, now, ncalls, limiterVars, lock, threadVars, histVars,
                   cacheVars, lwake, lcalls>>

LlmStep(t) ==
    \/ \E p \in LlmPrompts : LlmCall(t, p)
    \/ LlmAcquire(t)
    \/ AcqCheck(t)
    \/ AcqUpdate(t)
    \/ AcqTimeout(t)
    \/ LlmAcquired(t)
    \/ LlmWaitTime(t)
    \/ GwtRefill(t)
    \/ GwtCalc(t)
    \/ LlmRaiseLimit(t)
    \/ \E x \in BackendTexts : LlmBackendText(t, x)
    \/ \E quota \in BOOLEAN : LlmBackendFails(t, quota)
    \/ LlmRetry(t)
    \/ LlmDone(t)

LlmNext ==
    \/ Tick
    \/ \E t \in Threads : LlmStep(t)

\* lines 32-37: the module's cache and limiter, the limiter with a minute
\* limit or a day limit that the calls can exhaust
LlmSpecInit ==
    /\ \E l \in {<<1, MaxRpd>>, <<MaxRpm, 1>>} : LimiterInit(l[1], l[2], 0)
    /\ CacheInit(DefaultTtl)
    /\ LlmInit
    /\ SqlInit

LlmSpec == LlmSpecInit /\ [][LlmNext]_vars

\* ------------------------------------------------------- type correctness
TypeOK ==
    /\ now \in Nat
    /\ lock \in Threads \cup {NoThread}
    /\ pc \in [Threads -> {"idle", "acq_lock", "acq_upd", "acq_timeout",
                           "acq_sleep", "gwt_lock", "gwt_calc", "gs_lock",
                           "rst_lock", "rst_day", "returned"}]
    /\ blocking \in [Threads -> BOOLEAN]
    /\ ok \in [Threads -> BOOLEAN]
    /\ nested \in [Threads -> BOOLEAN]

\* ================================================================ claims
AcquireTrue == [op |-> "acquire", val |-> TRUE]
AcquireFalse == [op |-> "acquire", val |-> FALSE]

\* thread t is inside get_stats
InGetStats(t) == pc[t] = "gs_lock" \/ (nested[t] /\ pc[t] \in {"gwt_lock", "gwt_calc"})

\* thread t takes the step that refreshes the windows (_refill_tokens)
RefreshStep(t) == pc[t] \in {"acq_lock", "gwt_lock", "gs_lock"} /\ pc'[t] # pc[t]

\* thread t's call returns in this step
ReturnStep(t, o) == pc[t] # "returned" /\ pc'[t] = "returned" /\ ret'[t].op = o

\* C1: in every reachable state both token counts are within 0..limit, and no
\* two callers are between the test and the decrement at once (so two callers
\* that both see one token left never both take it).
C1_TokensInRange ==
    /\ 0 <= minute_tokens /\ minute_tokens <= rpm_limit
    /\ 0 <= day_tokens /\ day_tokens <= rpd_limit
    /\ \A t, u \in Threads : (pc[t] = "acq_upd" /\ pc[u] = "acq_upd") => t = u

\* one caller has seen the last minute token, the other is about to ask
C1_Witness ==
    \E t, u \in Threads :
        /\ t # u
        /\ pc[t] = "acq_upd" /\ ok[t] /\ minute_tokens = 1
        /\ pc[u] = "acq_lock"

\* C2: a completed admission check either finds both windows positive, takes
\* one token of each, counts a request and returns True, or takes no token and
\* counts a blocked request; no step takes a token of one window only, and no
\* call returns True from a state with a window at zero.
C2_AllOrNothing ==
    [][/\ \A t \in Threads :
            (pc[t] = "acq_upd" /\ pc'[t] # "acq_upd") =>
               \/ /\ minute_tokens > 0 /\ day_tokens > 0
                  /\ minute_tokens' = minute_tokens - 1
                  /\ day_tokens' = day_tokens - 1
                  /\ total_requests' = total_requests + 1
                  /\ total_blocked' = total_blocked
                  /\ pc'[t] = "returned" /\ ret'[t] = AcquireTrue
               \/ /\ minute_tokens' = minute_tokens
                  /\ day_tokens' = day_tokens
                  /\ total_requests' = total_requests
                  /\ total_blocked' = total_blocked + 1
                  /\ ret'[t] # AcquireTrue
       /\ (minute_tokens' < minute_tokens) <=> (day_tokens' < day_tokens)
       /\ \A t \in Threads :
            (ReturnStep(t, "acquire") /\ ret'[t].val) =>
                (minute_tokens > 0 /\ day_tokens > 0)
      ]_vars

\* a call was denied by the day window alone, after an earlier grant
C2_Witness ==
    \E t \in Threads :
        /\ pc[t] = "returned" /\ ret[t] = AcquireFalse
        /\ minute_tokens > 0 /\ day_tokens = 0
        /\ total_requests >= 1 /\ total_blocked >= 1

\* C3: between two resets of the minute window (by the refresh or by reset())
\* at most rpm_limit calls are granted, between two resets of the day window at
\* most rpd_limit; and a check that finds the day window at zero before 86400 s
\* have passed since day_last_refill is denied, whatever the minute window.
C3_WindowQuota ==
    [][/\ h_mgrants <= rpm_limit /\ h_mgrants' <= rpm_limit
       /\ h_dgrants <= rpd_limit /\ h_dgrants' <= rpd_limit
       /\ \A t \in Threads :
            (pc[t] = "acq_lock" /\ pc'[t] = "acq_upd"
                /\ day_tokens = 0 /\ now - day_last_refill < DayWindow)
            => ~ok'[t]
      ]_vars

\* the day window is at zero and a call was denied after the minute window
\* had been reset a second time
C3_Witness ==
    \E t \in Threads :
        /\ pc[t] = "returned" /\ ret[t] = AcquireFalse
        /\ day_tokens = 0 /\ minute_tokens = rpm_limit
        /\ minute_last_refill = 86399 /\ total_blocked >= 2

\* C4: a get_stats() call made while no other thread holds the lock completes
\* (its thread can always take its next step) and returns the record of the
\* limiter's state.
C4_GetStatsCompletes ==
    \A t \in Threads :
        /\ (InGetStats(t) /\ lock \in {NoThread, t}) => ENABLED ThreadStep(t)
        /\ (pc[t] = "returned" /\ ret[t].op = "get_stats") =>
               ret[t].val.total_requests = h_grants

\* in a fresh limiter (only non-blocking acquires so far, no window elapsed)
\* with rpm_limit <= rpd_limit, the first rpm_limit checks were granted and the
\* later ones denied, and the counters say so
ExactAdmissionCounts ==
    (pristine /\ rpm_limit <= rpd_limit) =>
        /\ h_grants = (IF h_checks <= rpm_limit THEN h_checks ELSE rpm_limit)
        /\ total_requests = h_grants
        /\ total_blocked = h_checks - h_grants

\* a thread that waits in get_stats for the lock it holds itself stays so for
\* ever: no step of any thread releases that lock
SelfDeadlockPermanent ==
    [][\A t \in Threads :
          (nested[t] /\ pc[t] = "gwt_lock" /\ lock = t) =>
          (nested'[t] /\ pc'[t] = "gwt_lock" /\ lock' = t)
      ]_vars

\* C5: fresh limiter, rpm_limit = N <= rpd_limit, no window elapsing: the
\* first N non-blocking acquires are granted, the next is denied, and the
\* get_stats() call that follows reports total_requests = N, total_blocked = 1.
C5_ExactAdmission ==
    /\ ExactAdmissionCounts
    /\ \A t \in Threads :
         (/\ pristine /\ rpm_limit <= rpd_limit /\ h_checks = rpm_limit + 1
          /\ \A u \in Threads \ {t} : pc[u] \in {"idle", "returned"})
         => /\ InGetStats(t) => ENABLED ThreadStep(t)
            /\ (pc[t] = "returned" /\ ret[t].op = "get_stats") =>
                  (ret[t].val.total_requests = rpm_limit
                     /\ ret[t].val.total_blocked = 1)

\* C6: a refresh made when a window's duration has elapsed sets that window's
\* tokens to its limit and its start to now (reset() does so at any time); the
\* tokens left in the minute window are rpm_limit less the grants since its
\* reset, and a check is granted exactly if both windows then have tokens: so
\* after the minute window elapses the next rpm_limit calls are granted while
\* the day window has tokens.
C6_WindowReset ==
    [][/\ \A t \in Threads :
            RefreshStep(t) =>
               /\ now - minute_last_refill >= MinuteWindow =>
                     (minute_tokens' = rpm_limit /\ minute_last_refill' = now)
               /\ now - day_last_refill >= DayWindow =>
                     (day_tokens' = rpd_limit /\ day_last_refill' = now)
               /\ pc'[t] = "acq_upd" =>
                     (ok'[t] <=> (minute_tokens' > 0 /\ day_tokens' > 0))
       /\ \A t \in Threads :
            (pc[t] = "acq_upd" /\ pc'[t] # "acq_upd") =>
                (ret'[t] = AcquireTrue <=> ok[t])
       /\ minute_tokens' + h_mgrants' = rpm_limit
      ]_vars

\* the minute window was used up at 59 s, reset at 60 s and used up again
C6_Witness ==
    /\ minute_last_refill = 60 /\ minute_tokens = 0
    /\ h_mgrants = rpm_limit /\ h_grants = 2 * rpm_limit
    /\ grantLog[1] = 59

\* C7: with no reset() in between, 2 * rpm_limit + 1 grants never fall within
\* less than 60 seconds.
C7_BurstBound ==
    Len(grantLog) = 2 * rpm_limit + 1 =>
        grantLog[Len(grantLog)] - grantLog[1] >= MinuteWindow

\* 2 * rpm_limit grants within less than 60 seconds, and a later one
C7_Witness ==
    /\ Len(grantLog) = 2 * rpm_limit + 1
    /\ grantLog[2 * rpm_limit] - grantLog[1] < MinuteWindow

\* C8: a blocking caller does not hold the lock while it tests its timeout,
\* sleeps, or waits to retry.
C8_NoLockWhileSleeping ==
    \A t \in Threads :
        pc[t] \in {"acq_timeout", "acq_sleep", "acq_lock"} => lock # t

\* another caller holds the lock while a denied blocking caller sleeps
C8_Witness ==
    \E t, u \in Threads :
        /\ t # u /\ pc[t] = "acq_sleep" /\ total_blocked >= 1
        /\ lock = u /\ pc[u] = "acq_upd"

\* after a denied check of a blocking call with a timeout: False is returned
\* exactly if the elapsed wait has reached the timeout, else the caller sleeps
TimeoutRespected ==
    [][\A t \in Threads :
          pc[t] = "acq_timeout" /\ pc'[t] # pc[t] =>
             IF timeout[t] # NoTimeout /\ now - start_time[t] >= timeout[t]
             THEN pc'[t] = "returned" /\ ret'[t] = AcquireFalse
             ELSE pc'[t] = "acq_sleep"
      ]_vars

\* C9: a blocking acquire with a finite timeout always terminates: whenever it
\* waits for the lock, the lock's holder can take a step (and so leaves its
\* critical section).
C9_BlockingAcquireTerminates ==
    \A t \in Threads :
        (pc[t] = "acq_lock" /\ blocking[t] /\ timeout[t] # NoTimeout
            /\ lock # NoThread)
        => ENABLED ThreadStep(lock)

\* C10 as stated: get_wait_time() returns 0 exactly if both windows have tokens
\* after the refresh.
C10_ZeroIffTokens ==
    [][\A t \in Threads :
          ReturnStep(t, "get_wait_time") =>
              (ret'[t].val = 0 <=> (minute_tokens' > 0 /\ day_tokens' > 0))
      ]_vars

\* C10 as amended: 0 if both windows have tokens after the refresh; otherwise
\* a value >= 0 for the first exhausted window (minute before day) that is
\* positive exactly if that window has not elapsed at the second reading of
\* the clock.
C10_WaitTimeSign ==
    [][\A t \in Threads :
          ReturnStep(t, "get_wait_time") =>
              /\ (minute_tokens' > 0 /\ day_tokens' > 0) => ret'[t].val = 0
              /\ ret'[t].val >= 0
              /\ minute_tokens' <= 0 =>
                    (ret'[t].val > 0 <=> now - minute_last_refill' < MinuteWindow)
              /\ (minute_tokens' > 0 /\ day_tokens' <= 0) =>
                    (ret'[t].val > 0 <=> now - day_last_refill' < DayWindow)
      ]_vars

\* the test (test_rate_limiting.py 55-76): rpm_limit grants, one denial, and
\* get_wait_time() in the same minute returns a positive wait
C10_Witness ==
    \E t \in Threads :
        /\ pc[t] = "returned" /\ ret[t].op = "get_wait_time" /\ ret[t].val > 0
        /\ total_requests = rpm_limit /\ total_blocked = 1
        /\ now - minute_last_refill < MinuteWindow

\* C11 as stated: with both windows exhausted get_wait_time() reports the time
\* remaining in the minute window, and in every state where both token counts
\* are 0 that time is at most the time remaining in the day window.
C11_MinuteWaitShorter ==
    [][/\ \A t \in Threads :
             (ReturnStep(t, "get_wait_time") /\ minute_tokens' = 0 /\ day_tokens' = 0)
                 => ret'[t].val = Max(0, MinuteWindow - (now' - minute_last_refill'))
       /\ (minute_tokens' = 0 /\ day_tokens' = 0) =>
             MinuteWindow - (now' - minute_last_refill')
                 <= DayWindow - (now' - day_last_refill')
      ]_vars

\* C11 as amended: with both windows exhausted get_wait_time() reports the
\* time remaining in the minute window (0 once it has elapsed); that time is at
\* most the time remaining in the day window only while the minute window
\* began no more than DayWindow - MinuteWindow after the day window.
C11_MinuteWaitReported ==
    [][/\ \A t \in Threads :
             (ReturnStep(t, "get_wait_time") /\ minute_tokens' = 0 /\ day_tokens' = 0)
                 => ret'[t].val = Max(0, MinuteWindow - (now' - minute_last_refill'))
       /\ (minute_tokens' = 0 /\ day_tokens' = 0
             /\ minute_last_refill' - day_last_refill' <= DayWindow - MinuteWindow) =>
             MinuteWindow - (now' - minute_last_refill')
                 <= DayWindow - (now' - day_last_refill')
      ]_vars

\* both windows exhausted a second before the day window ends, the minute
\* window just begun: get_wait_time() has returned the minute's 60 seconds,
\* more than the second left in the day window
C11_Witness ==
    \E t \in Threads :
        /\ pc[t] = "returned" /\ ret[t].op = "get_wait_time"
        /\ minute_tokens = 0 /\ day_tokens = 0
        /\ ret[t].val = MinuteWindow - (now - minute_last_refill)
        /\ ret[t].val > DayWindow - (now - day_last_refill)

\* C12 as stated: when reset() returns, both token counts are at their limits,
\* both windows start at the time of the reset, both counters are 0 and the
\* limits are unchanged.
C12_ResetOneInstant ==
    [][\A t \in Threads :
          ReturnStep(t, "reset") =>
              /\ minute_tokens' = rpm_limit' /\ day_tokens' = rpd_limit'
              /\ minute_last_refill' = now' /\ day_last_refill' = now'
              /\ total_requests' = 0 /\ total_blocked' = 0
              /\ rpm_limit' = rpm_limit /\ rpd_limit' = rpd_limit
      ]_vars

\* C12 as amended: when reset() returns, both token counts are at their
\* limits, both counters are 0 and the limits are unchanged; the day window
\* starts at the clock's second reading, which is the time reset() returns,
\* and the minute window at the first reading, which is not later.
C12_ResetRestoresQuota ==
    [][\A t \in Threads :
          ReturnStep(t, "reset") =>
              /\ minute_tokens' = rpm_limit' /\ day_tokens' = rpd_limit'
              /\ day_last_refill' = now' /\ minute_last_refill' <= day_last_refill'
              /\ total_requests' = 0 /\ total_blocked' = 0
              /\ rpm_limit' = rpm_limit /\ rpd_limit' = rpd_limit
      ]_vars

\* reset() has returned after a grant and a denial, and the clock moved
\* between its two readings
C12_Witness ==
    \E t \in Threads :
        /\ pc[t] = "returned" /\ ret[t].op = "reset"
        /\ h_mgrants = 0 /\ ncalls = MaxCalls
        /\ minute_tokens = rpm_limit /\ total_requests = 0
        /\ minute_last_refill < day_last_refill

\* ------------------------------------------------------- QueryCache claims
\* the number of calls on the cache that have returned
CacheCompleted == ccalls - Cardinality({t \in Threads : cpc[t] = "cln_lock"})

\* a call of operation o on the cache returns in this step
CacheReturn(o) == CacheCompleted' = CacheCompleted + 1 /\ cret'.op = o

\* what get_stats() reports of a cache just cleared
ClearedStats == [hits |-> 0, misses |-> 0, size |-> 0, hit_rate_percent |-> 0]

\* C13: get(p) returns a response only from an entry whose age at the call is
\* below ttl; with an entry of age >= ttl it returns None and deletes the
\* entry, so that the size get_stats reports is one less.
C13_NoStaleResponse ==
    [][\A p \in Prompts :
          (CacheReturn("get") /\ cret'.prompt = p) =>
              LET key == Digest(p) IN
              /\ cret'.val # None =>
                    /\ key \in DOMAIN cache
                    /\ now - cache[key].timestamp < ttl
                    /\ cret'.val = cache[key].response
              /\ (key \in DOMAIN cache /\ now - cache[key].timestamp >= ttl) =>
                    /\ cret'.val = None
                    /\ key \notin DOMAIN cache'
                    /\ CacheStats(cache', hits', misses').size
                          = CacheStats(cache, hits, misses).size - 1
      ]_vars

\* the test (test_rate_limiting.py 20-44): a set, a hit, and after the ttl a
\* get of the same prompt that returned None and removed the entry
C13_Witness ==
    /\ cret.op = "get" /\ cret.val = None
    /\ cret.prompt \in h_set /\ Digest(cret.prompt) \notin DOMAIN cache
    /\ hits = 1 /\ misses = 1 /\ h_clears = 0
    /\ ttl = 60 /\ now = 60

\* set(p, r) stores exactly (r, now) under p's key and changes no other entry
SetStoresLatest ==
    \A p \in Prompts :
        (CacheReturn("set") /\ cret'.prompt = p) =>
            /\ DOMAIN cache' = DOMAIN cache \cup {Digest(p)}
            /\ cache'[Digest(p)] = [response |-> cret'.response, timestamp |-> now]
            /\ \A k \in DOMAIN cache \ {Digest(p)} : cache'[k] = cache[k]

\* get(p) is the call after set(p, r), and no time has passed since the set
GetRightAfterSet(p) ==
    /\ CacheReturn("get") /\ cret'.prompt = p
    /\ cret.op = "set" /\ cret.prompt = p
    /\ cache[Digest(p)].timestamp = now

\* C14 as stated: set(p, r) immediately followed by get(p) returns r, whether
\* or not p had an entry; the set replaces the value, keeps one entry per key
\* and restarts the entry's age.
C14_RoundTrip ==
    [][/\ SetStoresLatest
       /\ \A p \in Prompts : GetRightAfterSet(p) => cret'.val = cret.response
      ]_vars

\* C14 as amended: the same for a cache whose ttl is positive; with ttl <= 0
\* the get right after the set returns None.
C14_RoundTripPositiveTtl ==
    [][/\ SetStoresLatest
       /\ \A p \in Prompts :
             GetRightAfterSet(p) =>
                 cret'.val = (IF ttl > 0 THEN cret.response ELSE None)
      ]_vars

\* a get returned the response of a set made at 59 with ttl 60: the age
\* counts from the latest set
C14_Witness ==
    /\ cret.op = "get" /\ cret.val = "SELECT 1"
    /\ ttl = 60 /\ now = 59
    /\ cache[Digest(cret.prompt)].timestamp = 59
    /\ ccalls >= 3 /\ h_gets = 1 /\ Cardinality(h_set) = 1 /\ h_clears = 0

\* C15: get(p) returns None for every prompt p not passed to set since the
\* cache was constructed or last cleared, whatever else was set; the empty
\* prompt included.
C15_UnsetPromptMisses ==
    [][\A p \in Prompts :
          (CacheReturn("get") /\ cret'.prompt = p /\ p \notin h_set) =>
              cret'.val = None
      ]_vars

\* the two other prompts are stored and get("") returned None
C15_Witness ==
    /\ cret.op = "get" /\ cret.prompt = "" /\ cret.val = None
    /\ h_set = {"a", "b"} /\ Cardinality(DOMAIN cache) = 2
    /\ misses = 1

\* C16: after clear() the cache reports hits 0, misses 0, size 0 and hit rate
\* 0, also through a get_stats() that follows; a clear() after a clear()
\* leaves the cache as it was.
C16_ClearResets ==
    [][/\ CacheReturn("clear") =>
             /\ CacheStats(cache', hits', misses') = ClearedStats
             /\ cret.op = "clear" => <<ttl', cache', hits', misses'>>
                                        = <<ttl, cache, hits, misses>>
       /\ (CacheReturn("get_stats") /\ cret.op = "clear") =>
             cret'.val = ClearedStats
      ]_vars

\* clear() twice, then get_stats() reported the cleared record
C16_Witness ==
    /\ cret.op = "get_stats" /\ cret.val = ClearedStats
    /\ h_clears = 2 /\ ccalls = MaxCacheCalls

\* C17: every get increments exactly one counter, hits if it returns a
\* response and misses if it returns None; hits + misses is the number of gets
\* completed since construction or the last clear(), hits the number of
\* those that returned a response.
C17_CountersCountGets ==
    [][/\ CacheReturn("get") =>
             \/ cret'.val # None /\ hits' = hits + 1 /\ misses' = misses
             \/ cret'.val = None /\ hits' = hits /\ misses' = misses + 1
       /\ hits' + misses' = h_gets'
       /\ hits' = h_resps'
      ]_vars

\* a hit on an entry and, once it has expired, a miss on the same prompt
C17_Witness ==
    /\ hits = 1 /\ misses = 1 /\ h_gets = 2 /\ h_resps = 1
    /\ cret.op = "get" /\ cret.val = None /\ cret.prompt \in h_set
    /\ Digest(cret.prompt) \notin DOMAIN cache
    /\ ttl = 1 /\ now >= 1

\* C18: cleanup_expired() removes the entries whose age, at the clock reading
\* the call took (line 111), is >= ttl and no other, returns the number of
\* entries removed, and leaves hits and misses unchanged.
C18_CleanupExact ==
    [][\A t \in Threads :
          (cpc[t] = "cln_lock" /\ cpc'[t] = "idle") =>
              LET gone == {k \in DOMAIN cache : cur[t] - cache[k].timestamp >= ttl}
              IN  /\ DOMAIN cache' = DOMAIN cache \ gone
                  /\ \A k \in DOMAIN cache' : cache'[k] = cache[k]
                  /\ cret'.op = "cleanup_expired"
                  /\ cret'.val = Cardinality(gone)
                  /\ Cardinality(DOMAIN cache')
                        = Cardinality(DOMAIN cache) - cret'.val
                  /\ hits' = hits /\ misses' = misses
      ]_vars

\* cleanup_expired() removed one entry, of age exactly ttl, and kept a newer
\* one
C18_Witness ==
    /\ cret.op = "cleanup_expired" /\ cret.val = 1
    /\ Cardinality(DOMAIN cache) = 1
    /\ ttl = 60 /\ now = 60
    /\ \A k \in DOMAIN cache : cache[k].timestamp = 1

\* ------------------------------------------------ observability claims
\* thread t takes a step inside RateLimiter.get_stats()
GetStatsStep(t) == InGetStats(t) /\ pc'[t] # pc[t]

\* C19 as stated: QueryCache.get_stats() leaves the entries and both counters
\* unchanged, and RateLimiter.get_stats() leaves both token counts, both
\* window starts and both counters unchanged, also when a window has elapsed.
C19_ReadsChangeNothing ==
    [][/\ CacheReturn("get_stats") => UNCHANGED <<cache, hits, misses>>
       /\ \A t \in Threads :
             GetStatsStep(t) =>
                 UNCHANGED <<minute_tokens, day_tokens, minute_last_refill,
                             day_last_refill, total_requests, total_blocked>>
      ]_vars

\* C19 as amended: QueryCache.get_stats() leaves the entries and both counters
\* unchanged; RateLimiter.get_stats() leaves total_requests and total_blocked
\* unchanged, and each window's token count and start unchanged unless that
\* window has elapsed: then the count is set to the limit and the start to now.
C19_StatsOnlyRefresh ==
    [][/\ CacheReturn("get_stats") => UNCHANGED <<cache, hits, misses>>
       /\ \A t \in Threads :
             GetStatsStep(t) =>
                 /\ UNCHANGED <<total_requests, total_blocked, rpm_limit, rpd_limit>>
                 /\ <<minute_tokens', minute_last_refill'>> =
                       IF now - minute_last_refill >= MinuteWindow
                       THEN <<rpm_limit, now>>
                       ELSE <<minute_tokens, minute_last_refill>>
                 /\ <<day_tokens', day_last_refill'>> =
                       IF now - day_last_refill >= DayWindow
                       THEN <<rpd_limit, now>>
                       ELSE <<day_tokens, day_last_refill>>
      ]_vars

\* get_stats() of the limiter has refreshed the minute window a grant had
\* used, and get_stats() of the cache has returned with an entry and a hit
\* stored
C19_Witness ==
    /\ \E t \in Threads :
          /\ nested[t] /\ pc[t] = "gwt_lock" /\ lock = t
          /\ minute_last_refill = now /\ now >= MinuteWindow
          /\ minute_tokens = rpm_limit /\ day_tokens < rpd_limit
          /\ total_requests >= 1
    /\ cret.op = "get_stats" /\ cret.val.size = 1 /\ cret.val.hits = 1
    /\ DOMAIN cache # {} /\ hits = 1

\* ----------------------------------------------------------- call_llm claims
\* thread t's call of call_llm starts in this step, with prompt p
LlmCallStep(t, p) == lpc[t] = "idle" /\ lpc'[t] # "idle" /\ lprompt'[t] = p

\* a response cached for p by an earlier call is within its ttl
CachedWithinTtl(p) ==
    Digest(p) \in DOMAIN cache /\ now - cache[Digest(p)].timestamp < ttl

\* thread t's call returns the text the backend returned at the first attempt
FirstAttemptReturns(t) ==
    lpc[t] = "backend" /\ lattempt[t] = 0 /\ lpc'[t] = "done" /\ lret'[t].kind = "fresh"

\* the call went cache miss, one grant, one backend invocation, response cached
MissGrantBackendCache(t) ==
    /\ h_lgrants'[t] = 1
    /\ h_inv'[t] = 1
    /\ Digest(lprompt[t]) \in DOMAIN cache'
    /\ cache'[Digest(lprompt[t])] = [response |-> lret'[t].val, timestamp |-> now]

\* the call is a cache hit returning the cached response, the limiter and the
\* backend left alone
HitReturnsCached(t, p) ==
    /\ hits' = hits + 1 /\ misses' = misses
    /\ lpc'[t] = "done"
    /\ lret'[t] = LlmRet("cached", cache[Digest(p)].response)
    /\ ncalls' = ncalls /\ pc'[t] = "idle"
    /\ h_inv'[t] = 0 /\ h_lgrants'[t] = 0

\* C20: for every prompt and every text the backend returns, a call that finds
\* no response cached for its prompt is a cache miss, takes one limiter grant,
\* invokes the backend once and caches the response; a call with the same
\* prompt within the ttl is a cache hit that returns that response without
\* consulting the limiter or the backend.
C20_SecondCallServedFromCache ==
    [][\A t \in Threads :
          /\ \A p \in LlmPrompts :
                LlmCallStep(t, p) =>
                    IF CachedWithinTtl(p)
                    THEN HitReturnsCached(t, p)
                    ELSE misses' = misses + 1 /\ lpc'[t] = "miss"
          /\ FirstAttemptReturns(t) => MissGrantBackendCache(t)
      ]_vars

\* the same for the calls whose cached response is not the empty text
NonEmptyServedFromCache ==
    [][\A t \in Threads :
          /\ \A p \in LlmPrompts :
                LlmCallStep(t, p) =>
                    IF CachedWithinTtl(p)
                    THEN cache[Digest(p)].response # "" => HitReturnsCached(t, p)
                    ELSE misses' = misses + 1 /\ lpc'[t] = "miss"
          /\ FirstAttemptReturns(t) => MissGrantBackendCache(t)
      ]_vars

\* a call was served the response an earlier call had cached
ServedFromCache ==
    \E t \in Threads :
        /\ lpc[t] = "done" /\ lret[t] = LlmRet("cached", "SELECT 1")
        /\ total_requests = 1 /\ hits = 1 /\ misses = 1

\* ----------------------------------------------------- validate_sql calls
\* validate_sql(sql_query, allowed_tables) is called and returns; raises says
\* whether db_manager.get_schema_info() raised
ValidateCall(sql_query, allowed, raises) ==
    /\ \E result \in ValidateSql(sql_query, allowed, schema_info, raises) :
           vret' = [done |-> TRUE, sql_query |-> sql_query, allowed |-> allowed,
                    raises |-> raises, result |-> result]
    /\ UNCHANGED <<schema_info, handlerVars, apiVars, now, ncalls, limiterVars, lock,
                   threadVars, histVars, cacheVars, llmVars>>

ValidatorNext ==
    \E sql_query \in Statements, allowed \in AllowedChoices, raises \in BOOLEAN :
        ValidateCall(sql_query, allowed, raises)

\* any database, an unused limiter and cache
ValidatorInit ==
    /\ LimiterInit(MaxRpm, MaxRpd, 0)
    /\ CacheInit(DefaultTtl)
    /\ LlmInit
    /\ schema_info \in Catalogs
    /\ vret = NoValRet
    /\ HandlerInit
    /\ ApiInit

ValidatorSpec == ValidatorInit /\ [][ValidatorNext]_vars

\* a validate_sql call has returned
Validated == vret.done

\* ------------------------------------------------- the stages of a call
\* the statement of the latest call, stripped, and its syntax tree
VSql == StripText(vret.sql_query)
VParsed == ParseOne(VSql)
\* allowed_tables as the table check uses it
VAllowed == IF vret.allowed.given THEN vret.allowed.tables ELSE DOMAIN schema_info

\* whether the statement of the latest call fails the stage
EmptinessFails == IsEmptyQuery(vret.sql_query)
SafetyFails == \E k \in 1..Len(UNSAFE_KEYWORDS) : KeywordFound(UNSAFE_KEYWORDS[k], VSql)
SyntaxFails == VParsed.kind # "tree"
SchemaFails == SchemaFailures(VParsed, vret.allowed, schema_info, vret.raises) # {}
CountFails == InteriorSemicolon(VSql)

\* the stage a message comes from
FromEmptiness(m) == m = EmptyMsg
FromSafety(m) == \E k \in 1..Len(UNSAFE_KEYWORDS) : m = UnsafeMsg(UNSAFE_KEYWORDS[k])
FromSyntax(m) == m \in {SyntaxMsg, ParseFailedMsg}
FromTableCheck(m) == \E table \in Identifiers : m = TableMsg(table)
FromColumnCheck(m) == \E c \in Identifiers, t \in Identifiers : m = ColumnMsg(c, t)
FromSchema(m) == FromTableCheck(m) \/ FromColumnCheck(m)
FromCount(m) == m = MultipleMsg

\* the message is that of the first stage that fails, and the result is valid
\* only if none does
FirstFailingStageReported ==
    LET m == vret.result.message
    IN  /\ EmptinessFails => FromEmptiness(m)
        /\ ~EmptinessFails /\ SafetyFails => FromSafety(m)
        /\ ~EmptinessFails /\ ~SafetyFails /\ SyntaxFails => FromSyntax(m)
        /\ ~EmptinessFails /\ ~SafetyFails /\ ~SyntaxFails /\ SchemaFails
               => FromSchema(m)
        /\ ~EmptinessFails /\ ~SafetyFails /\ ~SyntaxFails /\ ~SchemaFails
               /\ CountFails => FromCount(m)
        /\ vret.result.valid <=>
               ~(EmptinessFails \/ SafetyFails \/ SyntaxFails \/ SchemaFails
                   \/ CountFails)
        /\ vret.result.valid <=> m = ValidMsg

\* the tables named anywhere in the text, in whichever of its statements: the
\* identifiers that follow FROM or a comma
TextTables(sql) ==
    LET w == SelectSeq(sql, LAMBDA tok : tok # Blank)
    IN  {w[i] : i \in {j \in 2..Len(w) : /\ w[j] \in Identifiers
                                          /\ \/ Upper(w[j - 1]) = "FROM"
                                             \/ w[j - 1] = ","}}
\* the table is none of the allowed tables, whatever the letter case
UnknownTable(t) == Lower(t) \notin {Lower(a) : a \in VAllowed}

\* a statement with a denylisted keyword and an interior semicolon is reported
\* as unsafe
UnsafeBeforeCount ==
    ~EmptinessFails /\ SafetyFails /\ CountFails
        => FromSafety(vret.result.message)

\* C23: validate_sql is an ordered pipeline (emptiness, denylist safety,
\* syntax, schema, statement count) and the returned message is that of the
\* first stage that fails in this order; a statement that contains a
\* denylisted keyword and has an interior semicolon is reported as unsafe, and
\* a safe, parseable one that references an unknown table and has an interior
\* semicolon is reported as unknown table; the result is valid only if no
\* stage fails.
C23_FirstFailureReported ==
    Validated =>
        /\ FirstFailingStageReported
        /\ UnsafeBeforeCount
        /\ ~EmptinessFails /\ ~SafetyFails /\ ~SyntaxFails /\ ~vret.raises
               /\ (\E t \in TextTables(VSql) : UnknownTable(t)) /\ CountFails
               => FromTableCheck(vret.result.message)

\* C23, amended: the same, the unknown table being one the first statement of
\* the text references (parse_one returns the tree of the first statement
\* only, so the tables named after the first semicolon are not looked up).
C23_FirstStatementTables ==
    Validated =>
        /\ FirstFailingStageReported
        /\ UnsafeBeforeCount
        /\ ~EmptinessFails /\ ~SafetyFails /\ ~SyntaxFails /\ ~vret.raises
               /\ (\E t \in VParsed.tables : UnknownTable(t)) /\ CountFails
               => FromTableCheck(vret.result.message)

\* a statement with an unknown table in its first statement and an interior
\* semicolon was reported as unknown table, and one with a denylisted keyword
\* and an interior semicolon as unsafe
C23_Witness ==
    /\ Validated /\ ~vret.raises /\ CountFails
    /\ \E t \in VParsed.tables : UnknownTable(t)
    /\ vret.result = Rejected(TableMsg("non_existent_table"))


\* the keyword occurs in the statement of the latest call as a whole word, in
\* any letter case
OccursAsWord(keyword) ==
    \E i \in 1..Len(vret.sql_query) : Upper(vret.sql_query[i]) = keyword
DenylistedWords ==
    {UNSAFE_KEYWORDS[k] : k \in {j \in 1..Len(UNSAFE_KEYWORDS) :
                                     OccursAsWord(UNSAFE_KEYWORDS[j])}}

\* C24: no statement containing one of the denylisted keywords as a whole
\* word, in any letter case and anywhere in the text, is reported valid: the
\* result is invalid with a message naming a denylisted keyword that occurs in
\* the statement, whatever the catalog and whether or not introspection
\* raises.
C24_DenylistedNeverValid ==
    Validated /\ DenylistedWords # {} =>
        /\ ~vret.result.valid
        /\ \E keyword \in DenylistedWords :
               vret.result.message = UnsafeMsg(keyword)

\* a statement with a keyword in mixed case after its first statement was
\* rejected as unsafe while introspection raised
C24_Witness ==
    /\ Validated /\ vret.raises
    /\ OccursAsWord("DROP") /\ ~KeywordFound_CaseSensitive("DROP", vret.sql_query)
    /\ Upper(vret.sql_query[1]) = "SELECT"
    /\ vret.result = Rejected(UnsafeMsg("DROP"))


\* a semicolon occurs before the final character of the trimmed text of the
\* latest call
SemicolonBeforeEnd ==
    LET trimmed == StripText(vret.sql_query)
    IN  \E i \in 1..Len(trimmed) : trimmed[i] = ";" /\ i < Len(trimmed)
\* the only semicolon of the trimmed text is its final character
OnlyFinalSemicolon ==
    LET trimmed == StripText(vret.sql_query)
    IN  /\ Len(trimmed) > 0 /\ trimmed[Len(trimmed)] = ";"
        /\ ~SemicolonBeforeEnd

\* C25: no statement in which a semicolon occurs before the final character
\* of the trimmed text is reported valid, whether or not introspection
\* succeeded; a statement whose only semicolon is its final character is not
\* rejected by the statement-count stage.
C25_InteriorSemicolonNeverValid ==
    Validated =>
        /\ SemicolonBeforeEnd => ~vret.result.valid
        /\ OnlyFinalSemicolon => vret.result.message # MultipleMsg

\* a safe, parseable text of two statements was rejected for its statement
\* count while introspection raised
C25_Witness ==
    /\ Validated /\ vret.raises /\ SemicolonBeforeEnd
    /\ vret.result = Rejected(MultipleMsg)

\* a statement ending in its only semicolon, followed by white space, was
\* reported valid
FinalSemicolonAccepted ==
    /\ Validated /\ OnlyFinalSemicolon
    /\ vret.sql_query[Len(vret.sql_query)] = Blank
    /\ vret.result = Accepted


\* the result the emptiness, safety, syntax and statement-count stages alone
\* give the statement of the latest call
WithoutSchemaStage(result) ==
    /\ EmptinessFails => result = Rejected(EmptyMsg)
    /\ ~EmptinessFails /\ DenylistedWords # {} =>
           ~result.valid /\ FromSafety(result.message)
    /\ ~EmptinessFails /\ DenylistedWords = {} /\ SyntaxFails =>
           ~result.valid /\ FromSyntax(result.message)
    /\ ~EmptinessFails /\ DenylistedWords = {} /\ ~SyntaxFails /\ SemicolonBeforeEnd =>
           result = Rejected(MultipleMsg)
    /\ ~EmptinessFails /\ DenylistedWords = {} /\ ~SyntaxFails /\ ~SemicolonBeforeEnd =>
           result = Accepted

\* C26: fail-open schema stage: if schema introspection raises, validate_sql
\* does not raise and does not return invalid because of it; the outcome is
\* that of the same statement with the schema stage skipped, decided by the
\* emptiness, safety, syntax and statement-count stages alone.
C26_IntrospectionFailsOpen ==
    Validated /\ vret.raises =>
        /\ ~FromSchema(vret.result.message)
        /\ WithoutSchemaStage(vret.result)

\* a statement on a table the catalog does not have was reported valid while
\* introspection raised
C26_Witness ==
    /\ Validated /\ vret.raises
    /\ \E t \in VParsed.tables : UnknownTable(t)
    /\ vret.result = Accepted


\* the latest call reached the schema stage with a catalog: its statement is
\* not empty, safe and parseable, and introspection succeeded
ReachedSchemaStage ==
    Validated /\ ~EmptinessFails /\ DenylistedWords = {} /\ ~SyntaxFails /\ ~vret.raises
\* the tables the statement references, as written
ReferencedTables == VParsed.tables
\* the catalog has no table of that name, whatever the letter case
AbsentFromCatalog(t) == Lower(t) \notin {Lower(a) : a \in DOMAIN schema_info}

\* C27: when introspection succeeds, a safe, parseable statement that
\* references at least one table absent from the schema catalog is invalid,
\* with a message naming a missing table; a statement all of whose referenced
\* tables are in the catalog is not rejected by the table check.
C27_TablesLookedUp ==
    ReachedSchemaStage /\ ~vret.allowed.given =>
        /\ (\E t \in ReferencedTables : AbsentFromCatalog(t)) =>
               /\ ~vret.result.valid
               /\ \E t \in ReferencedTables :
                      /\ AbsentFromCatalog(t)
                      /\ vret.result.message = TableMsg(Lower(t))
        /\ (\A t \in ReferencedTables : t \in DOMAIN schema_info) =>
               ~FromTableCheck(vret.result.message)

\* the first half of C27: a table the catalog does not have is reported
MissingTableReported ==
    ReachedSchemaStage /\ ~vret.allowed.given
        /\ (\E t \in ReferencedTables : AbsentFromCatalog(t)) =>
            /\ ~vret.result.valid
            /\ \E t \in ReferencedTables :
                   /\ AbsentFromCatalog(t)
                   /\ vret.result.message = TableMsg(Lower(t))

\* C28: table existence is checked case-insensitively: a table reference that
\* equals an allowed table name up to letter case passes the table check, for
\* every catalog (also one whose table names have upper-case letters) and for
\* an explicitly supplied allowed_tables list.
C28_TableCaseInsensitive ==
    ReachedSchemaStage /\ (\A t \in ReferencedTables : ~UnknownTable(t)) =>
        ~FromTableCheck(vret.result.message)

\* the same for the catalogs and lists whose names are all in lower case
LowerCaseNamesMatch ==
    ReachedSchemaStage /\ (\A a \in VAllowed : Lower(a) = a)
        /\ (\A t \in ReferencedTables : ~UnknownTable(t)) =>
            ~FromTableCheck(vret.result.message)


\* the catalog tables a column's qualifier resolves to: the table of that
\* name, or the table the statement declares the qualifier an alias of
ResolvesTo(qualifier) ==
    {t \in DOMAIN schema_info :
        \/ Lower(qualifier) = Lower(t)
        \/ \E a \in VParsed.aliases :
               Lower(a.alias) = Lower(qualifier) /\ Lower(a.table) = Lower(t)}
\* the column is not among the declared columns of the table
Undeclared(column_name, t) ==
    /\ column_name # "*"
    /\ Lower(column_name) \notin {Lower(col) : col \in schema_info[t]}
ColumnsOf(parsed) == {parsed.columns[i] : i \in 1..Len(parsed.columns)}

\* C29: a column reference qualified by something that resolves to a catalog
\* table, either the table's name or an alias declared for it in the
\* statement, makes the statement invalid when that column is not among the
\* table's declared columns.
C29_QualifiedColumnChecked ==
    ReachedSchemaStage =>
        \A column \in ColumnsOf(VParsed) :
            (column.table # "" /\ \E t \in ResolvesTo(column.table) :
                                      Undeclared(column.name, t))
                => ~vret.result.valid

\* the same for the qualifiers that are the name of a catalog table as the
\* catalog writes it in lower case
TableNameQualifierChecked ==
    ReachedSchemaStage =>
        \A column \in ColumnsOf(VParsed) :
            (/\ Lower(column.table) \in DOMAIN schema_info
             /\ Undeclared(column.name, Lower(column.table)))
                => ~vret.result.valid

\* C30: a statement that selects an unqualified column which is not declared
\* in the single known table it selects from (SELECT invalid_column FROM
\* customers) is rejected as an invalid column.
C30_UnqualifiedColumnChecked ==
    ReachedSchemaStage =>
        \A column \in ColumnsOf(VParsed), t \in DOMAIN schema_info :
            (/\ column.table = ""
             /\ {Lower(r) : r \in ReferencedTables} = {t}
             /\ Undeclared(column.name, t))
                => ~vret.result.valid /\ FromColumnCheck(vret.result.message)


\* ============================================================ the handlers
\* api/main.py generate_and_execute and agents/team.py
\* process_nl2sql_request: generate a statement, validate it, execute it.
Handlers == {"generate_and_execute", "process_nl2sql_request"}
\* max_retries of process_nl2sql_request
TeamMaxRetries == 2

\* the statements the generator returns: any text the model makes up ("" is
\* what nl_to_sql returns when it runs out of attempts)
Generated ==
    { <<>>,
      SelectAll \o <<";">>,
      DropTable \o <<";">>,
      SelectUnknown \o <<";">>,
      SelectAll \o <<";", " ">> \o SelectOrders,
      <<"SELECT", " ", "*", " ", "WHERE", " ", "name">> }

\* main.py line 119, team.py lines 128 and 164: the test of the validity flag
ValidationPassed_Always(result) == TRUE
ValidationPassed(result) == result.valid

limiterFrame ==
    <<now, ncalls, limiterVars, lock, threadVars, histVars, cacheVars, llmVars,
      apiVars>>

\* a request arrives
HandlerCall(h, execute) ==
    /\ hpc = "idle"
    /\ req' = [handler |-> h, execute |-> execute]
    /\ hpc' = "called"
    /\ UNCHANGED <<schema_info, vret, hsql, hvalid, retry_count, h_fresh, limiterFrame>>

\* main.py line 114, team.py line 92: sql = nl_to_sql(...) / generate_sql(...)
Generate(statement) ==
    /\ hpc = "called"
    /\ hsql' = statement
    /\ h_fresh' = FALSE
    /\ hpc' = "generated"
    /\ UNCHANGED <<schema_info, vret, req, hvalid, retry_count, limiterFrame>>

\* the generator raises: main.py line 146 answers with status 500, team.py
\* line 226 returns the error
GenerateRaises ==
    /\ hpc \in {"called", "correcting"}
    /\ hpc' = "returning"
    /\ UNCHANGED <<schema_info, vret, req, hsql, hvalid, retry_count, h_fresh, limiterFrame>>

\* main.py line 118, team.py lines 113 and 152-162: validate_sql(sql); a pass
\* of the self-correction loop ends with retry_count += 1
Validate(raises) ==
    /\ hpc \in {"generated", "regenerated"}
    /\ \E result \in ValidateSql(hsql, NoTables, schema_info, raises) :
           /\ vret' = [done |-> TRUE, sql_query |-> hsql, allowed |-> NoTables,
                       raises |-> raises, result |-> result]
           /\ hvalid' = ValidationPassed(result)
    /\ h_fresh' = TRUE
    /\ retry_count' = IF hpc = "regenerated" THEN retry_count + 1 ELSE retry_count
    /\ hpc' = "validated"
    /\ UNCHANGED <<schema_info, req, hsql, limiterFrame>>

\* team.py lines 128-150: the loop is entered, and
\* sql = generate_sql(correction_prompt)
Correct ==
    /\ hpc = "validated" /\ req.handler = "process_nl2sql_request"
    /\ ~hvalid /\ retry_count < TeamMaxRetries
    /\ hpc' = "correcting"
    /\ UNCHANGED <<schema_info, vret, req, hsql, hvalid, retry_count, h_fresh, limiterFrame>>
Regenerate(statement) ==
    /\ hpc = "correcting"
    /\ hsql' = statement
    /\ h_fresh' = FALSE
    /\ hpc' = "regenerated"
    /\ UNCHANGED <<schema_info, vret, req, hvalid, retry_count, limiterFrame>>

\* main.py lines 119-126, team.py lines 166-172: the statement is invalid (and
\* the retries are used up); the handler returns without executing
Refuse ==
    /\ hpc = "validated" /\ ~hvalid
    /\ req.handler = "process_nl2sql_request" => retry_count >= TeamMaxRetries
    /\ hpc' = "returning"
    /\ UNCHANGED <<schema_info, vret, req, hsql, hvalid, retry_count, h_fresh, limiterFrame>>

\* main.py lines 136-138, team.py lines 175-179: execute is set;
\* execute_sql_with_limit(sql) / execute_sql_with_agent(sql) is called
Execute ==
    /\ hpc = "validated" /\ hvalid /\ req.execute
    /\ hpc' = "executed"
    /\ UNCHANGED <<schema_info, vret, req, hsql, hvalid, retry_count, h_fresh, limiterFrame>>

\* main.py line 136, team.py lines 207-213: execute is not set
SkipExecution ==
    /\ hpc = "validated" /\ hvalid /\ ~req.execute
    /\ hpc' = "returning"
    /\ UNCHANGED <<schema_info, vret, req, hsql, hvalid, retry_count, h_fresh, limiterFrame>>

\* main.py line 144, team.py line 224: the handler returns
HandlerReturn ==
    /\ hpc \in {"executed", "returning"}
    /\ hpc' = "idle"
    /\ req' = NoRequest
    /\ hsql' = <<>>
    /\ hvalid' = FALSE
    /\ retry_count' = 0
    /\ h_fresh' = FALSE
    /\ UNCHANGED <<schema_info, vret, limiterFrame>>

HandlerNext ==
    \/ \E h \in Handlers, execute \in BOOLEAN : HandlerCall(h, execute)
    \/ \E statement \in Generated : Generate(statement)
    \/ GenerateRaises
    \/ \E raises \in BOOLEAN : Validate(raises)
    \/ Correct
    \/ \E statement \in Generated : Regenerate(statement)
    \/ Refuse
    \/ Execute
    \/ SkipExecution
    \/ HandlerReturn

HandlerSpec == ValidatorInit /\ [][HandlerNext]_vars

\* C22: a statement reaches the execution collaborator only if the most
\* recent validate call on that same statement text returned valid: in
\* generate_and_execute and in process_nl2sql_request, every pass of its
\* self-correction loop included, execute is never called for a statement
\* whose last validation was invalid or that was regenerated after its last
\* validation.
C22_ExecutedOnlyIfValid ==
    hpc = "executed" =>
        /\ h_fresh
        /\ vret.done /\ vret.sql_query = hsql
        /\ vret.result.valid

\* process_nl2sql_request executed a statement it had regenerated in its
\* self-correction loop
C22_Witness ==
    /\ hpc = "executed" /\ req.handler = "process_nl2sql_request"
    /\ retry_count = TeamMaxRetries
    /\ vret.result = Accepted


\* ============================================================ the accessors
\* rate_limiter.py get_rate_limiter and cache.py get_cache: a module-level
\* global, tested and assigned without a lock.
\* the number of accessor calls made in all
MaxGetCalls == 3

\* the arguments the callers pass: llm_client.py lines 33-37 and
\* phidata_setup.py lines 46-50, and two values of ttl
LimiterArgs == {[rpm |-> 60, rpd |-> 10000, ttl |-> 0], [rpm |-> 4, rpd |-> 100, ttl |-> 0]}
CacheArgs == {[rpm |-> 0, rpd |-> 0, ttl |-> DefaultTtl], [rpm |-> 0, rpd |-> 0, ttl |-> 60]}
ArgsOf(w) == IF w = "get_rate_limiter" THEN LimiterArgs ELSE CacheArgs

otherFrame ==
    <<now, ncalls, limiterVars, lock, threadVars, histVars, cacheVars, llmVars,
      schema_info, vret, handlerVars, nlVars, mwVars>>

\* the test of the global: if _global_limiter is None
GlobalIsNone(w) == g_inst[w] = NoInstance

\* lines 189-190 (cache.py 146): the accessor is called and tests the global
GetInstanceCall(t, w, a) ==
    /\ gpc[t] = "idle"
    /\ gcalls < MaxGetCalls
    /\ gcalls' = gcalls + 1
    /\ gwhich' = [gwhich EXCEPT ![t] = w]
    /\ garg' = [garg EXCEPT ![t] = a]
    /\ gret' = [gret EXCEPT ![t] = NoInstance]
    /\ gpc' = [gpc EXCEPT ![t] = IF GlobalIsNone(w) THEN "construct" ELSE "return"]
    /\ UNCHANGED <<g_inst, g_made, h_returned, otherFrame>>

\* lines 190-193 (cache.py 147): the instance is constructed with the call's
\* arguments and assigned to the global
GetInstanceConstruct(t) ==
    /\ gpc[t] = "construct"
    /\ g_made' = [g_made EXCEPT ![gwhich[t]] = Append(@, garg[t])]
    /\ g_inst' = [g_inst EXCEPT ![gwhich[t]] = Len(g_made[gwhich[t]]) + 1]
    /\ gpc' = [gpc EXCEPT ![t] = "return"]
    /\ UNCHANGED <<gwhich, garg, gret, gcalls, h_returned, otherFrame>>

\* line 194 (cache.py 149): return _global_limiter
GetInstanceReturn(t) ==
    /\ gpc[t] = "return"
    /\ gret' = [gret EXCEPT ![t] = g_inst[gwhich[t]]]
    /\ h_returned' = [h_returned EXCEPT ![gwhich[t]] = @ \cup {g_inst[gwhich[t]]}]
    /\ gpc' = [gpc EXCEPT ![t] = "done"]
    /\ UNCHANGED <<g_inst, g_made, gwhich, garg, gcalls, otherFrame>>

\* the caller goes on with the instance
GetInstanceDone(t) ==
    /\ gpc[t] = "done"
    /\ gpc' = [gpc EXCEPT ![t] = "idle"]
    /\ UNCHANGED <<g_inst, g_made, gwhich, garg, gret, gcalls, h_returned, otherFrame>>

SingletonNext ==
    \E t \in Threads :
        \/ \E w \in Accessors : \E a \in ArgsOf(w) : GetInstanceCall(t, w, a)
        \/ GetInstanceConstruct(t)
        \/ GetInstanceReturn(t)
        \/ GetInstanceDone(t)

SingletonSpec == ValidatorInit /\ [][SingletonNext]_vars

\* C31: every call to get_rate_limiter() (and to get_cache()) in one process
\* returns the same instance, and the instance is constructed at most once,
\* also when the first calls are made concurrently by several threads.
C31_OneInstance ==
    \A w \in Accessors :
        /\ Len(g_made[w]) <= 1
        /\ Cardinality(h_returned[w]) <= 1

\* the same for the calls that do not overlap a construction: a call that
\* tests the global after it was assigned returns the instance it names and
\* constructs nothing
LaterCallsShareInstance ==
    [][\A t \in Threads, w \in Accessors :
          gpc[t] = "idle" /\ gpc'[t] = "return" /\ gwhich'[t] = w
              => g_inst[w] # NoInstance /\ g_made' = g_made /\ g_inst' = g_inst
      ]_vars


\* the configuration in force: the constructor arguments of the instance the
\* global names
InForce(w) == g_made[w][g_inst[w]]

\* C32: configuration is fixed at construction: no later get_rate_limiter(rpm',
\* rpd') or get_cache(ttl') call with different arguments changes rpm_limit,
\* rpd_limit or ttl of the existing instance; the limits in force are those of
\* the first caller.
C32_ConfigurationFixed ==
    [][\A w \in Accessors :
          g_inst[w] # NoInstance =>
              /\ g_inst'[w] # NoInstance
              /\ InForce(w)' = InForce(w)
              /\ InForce(w) = g_made[w][1]
      ]_vars

\* the part of C32 that is about the instances: the arguments an instance was
\* constructed with stay its configuration whatever calls follow
InstancesKeepConfiguration ==
    [][\A w \in Accessors : \A i \in 1..Len(g_made[w]) :
          i <= Len(g_made'[w]) /\ g_made'[w][i] = g_made[w][i]
      ]_vars

\* the part of C32 that is about the operations: no step of acquire,
\* get_wait_time, get_stats, reset, get, set, clear and cleanup_expired changes
\* rpm_limit, rpd_limit or ttl
OperationsKeepConfiguration ==
    [][rpm_limit' = rpm_limit /\ rpd_limit' = rpd_limit /\ ttl' = ttl]_vars


\* C33: in every reachable state total_requests equals the number of acquire
\* calls that have returned true since construction or the last reset(), and
\* total_requests + total_blocked equals the number of admission checks
\* performed since then: a blocking acquire adds one to total_blocked for each
\* failed retry iteration, not one per call.
C33_CountersCountChecks ==
    /\ total_requests = h_grants
    /\ total_requests + total_blocked = h_checks

\* two calls have been made: one was granted, the other is a blocking acquire
\* that has been denied twice and is still retrying
C33_Witness ==
    \E t \in Threads :
        /\ ncalls = 2 /\ blocking[t] /\ pc[t] = "acq_timeout"
        /\ h_grants = 1 /\ total_blocked = 2 /\ h_checks = 3


\* lines 84-86 at time t with the counts m, d of windows begun at mlast, dlast:
\* the refresh, then the admission test of an acquire issued at t
AdmittedAt(m, mlast, d, dlast, t) ==
    HasTokens(RefillWindow(m, mlast, rpm_limit, MinuteWindow, t)[1],
              RefillWindow(d, dlast, rpd_limit, DayWindow, t)[1])

\* thread t's get_wait_time call returns in this step
WaitTimeReturns(t) ==
    /\ pc[t] \in {"gwt_lock", "gwt_calc"}
    /\ pc'[t] = "returned"
    /\ ret'[t].op = "get_wait_time"

\* C34: get_wait_time() is a sufficient wait: when it returns w and no other
\* caller acquires or resets in the meantime, a non-blocking acquire issued
\* once w seconds have elapsed is granted, in every reachable state, also one
\* where the minute and the day window are both exhausted.
C34_WaitSuffices ==
    [][\A t \in Threads :
          WaitTimeReturns(t) =>
              AdmittedAt(minute_tokens', minute_last_refill', day_tokens',
                         day_last_refill', now' + ret'[t].val)
      ]_vars

\* the wait suffices whenever the day window has a token left, or ends no
\* later than the minute window
WaitSufficesForMinute ==
    [][\A t \in Threads :
          (WaitTimeReturns(t) /\
              (day_tokens' > 0
                 \/ WindowElapsed(now' + ret'[t].val, day_last_refill', DayWindow))) =>
              AdmittedAt(minute_tokens', minute_last_refill', day_tokens',
                         day_last_refill', now' + ret'[t].val)
      ]_vars

\* ------------------------------------------- a blocking acquire that waits
\* One thread calls acquire(blocking=True, timeout=None), again and again;
\* the other makes the calls that take no token: get_wait_time and get_stats.
Waiter == 1
Observer == 2
\* the end of the time the clock covers
ClockEnd == CHOOSE x \in Clock : \A y \in Clock : y <= x

WaitNext ==
    \/ Tick
    \/ AcquireCall(Waiter, TRUE, NoTimeout)
    \/ AcqCheck(Waiter)
    \/ AcqUpdate(Waiter)
    \/ AcqTimeout(Waiter)
    \/ Continue(Waiter)
    \/ GetWaitTimeCall(Observer)
    \/ GetStatsCall(Observer)
    \/ GsRefill(Observer)
    \/ GwtRefill(Observer)
    \/ GwtCalc(Observer)
    \/ Continue(Observer)

\* Time advances; a thread that can run does run (the statements between two
\* lock operations take finite time); the lock is fair: a thread that finds it
\* free again and again gets it.
WaitFairness ==
    /\ WF_vars(Tick)
    /\ SF_vars(AcqCheck(Waiter))
    /\ WF_vars(AcqUpdate(Waiter))
    /\ WF_vars(AcqTimeout(Waiter))
    /\ SF_vars(GsRefill(Observer))
    /\ SF_vars(GwtRefill(Observer))
    /\ WF_vars(GwtCalc(Observer))

WaitSpec == Init /\ [][WaitNext]_vars /\ WaitFairness

\* thread t is inside acquire(blocking=True, timeout=None)
WaitsForToken(t) ==
    /\ pc[t] \in {"acq_lock", "acq_upd", "acq_timeout", "acq_sleep"}
    /\ blocking[t]
    /\ timeout[t] = NoTimeout

\* acquire has returned True to thread t
Granted(t) == pc[t] = "returned" /\ ret[t] = [op |-> "acquire", val |-> TRUE]

\* thread t's retry loop is asleep (line 116) when the time covered ends
StillRetrying(t) == pc[t] = "acq_sleep" /\ now = ClockEnd

\* a blocking acquire with timeout = None never returns False
NoTimeoutNeverFalse ==
    [][\A t \in Threads :
          WaitsForToken(t) /\ pc'[t] = "returned" =>
              ret'[t] = [op |-> "acquire", val |-> TRUE]
      ]_vars

\* C35: a blocking acquire with timeout = None never returns False; with time
\* advancing, a fair lock and no other caller consuming tokens it is
\* eventually granted, at the latest once the exhausted windows have elapsed
\* and been reset, and then returns True.
C35_EventuallyGranted ==
    /\ NoTimeoutNeverFalse
    /\ WaitsForToken(Waiter) ~> (Granted(Waiter) \/ StillRetrying(Waiter))

\* the same, unless the lock is held by a get_stats call that waits for it
GrantedUnlessStatsHoldsLock ==
    WaitsForToken(Waiter) ~>
        \/ Granted(Waiter)
        \/ StillRetrying(Waiter)
        \/ nested[Observer] /\ pc[Observer] = "gwt_lock" /\ lock = Observer

\* the keys thread t's sweep deletes in this step
SweptBy(t) ==
    IF cpc[t] = "cln_lock" /\ cpc'[t] = "idle"
    THEN DOMAIN cache \ DOMAIN cache'
    ELSE {}

\* another thread's set writes an entry in this step, after thread t's
\* cleanup_expired has read the clock (line 111) and before it has the lock
SetDuringCleanup(t) ==
    /\ cpc[t] = "cln_lock"
    /\ \E u \in Threads \ {t}, p \in Prompts, r \in Responses : SetCall(u, p, r)

\* C36: cleanup_expired never removes a live entry under concurrency: an entry
\* written by a concurrent set between the clock read and the lock
\* acquisition, or any entry whose age at the removal is < ttl, is never
\* deleted, for any interleaving with set, get and clear.
C36_LiveEntriesKept ==
    [][\A t \in Threads :
          /\ \A k \in SweptBy(t) : now - cache[k].timestamp >= ttl
          /\ SetDuringCleanup(t) => ~(cur[t] - now >= ttl)
      ]_vars

\* the same for a cache whose ttl is positive; with any ttl, no entry removed
\* is younger than ttl at the removal
C36_LiveEntriesKeptPositiveTtl ==
    [][\A t \in Threads :
          /\ \A k \in SweptBy(t) :
                /\ now - cache[k].timestamp >= ttl
                /\ ttl > 0 => cache[k].timestamp < cur[t]
          /\ (ttl > 0 /\ SetDuringCleanup(t)) => ~(cur[t] - now >= ttl)
      ]_vars

\* a sweep is about to run with a clock reading older than an entry written
\* since, and with an entry that had expired at that reading
C36_Witness ==
    \E t \in Threads :
        /\ cpc[t] = "cln_lock" /\ ttl > 0
        /\ \E k \in DOMAIN cache : cache[k].timestamp > cur[t]
        /\ \E k \in DOMAIN cache : cur[t] - cache[k].timestamp >= ttl

\* --------------------------------------------- call_llm with one caller
\* One thread calls call_llm again and again, so that every change of the
\* cache and of the limiter is made by its calls.
Caller == 1

SoloNext ==
    \/ Tick
    \/ LlmStep(Caller)

SoloSpec == LlmSpecInit /\ [][SoloNext]_vars

\* thread t's call_llm has ended by raising after the backend failed: every
\* attempt failed (line 124) or a quota error came back (line 110); an empty
\* response (line 103) is one of the failures of an attempt
RaisedAfterBackend(t) ==
    /\ lpc[t] = "done"
    /\ lret[t].kind = "raise"
    /\ lret[t].val \in {"Failed to call", "quota exceeded"}

\* one grant was taken and neither window has its token back
GrantKept(t) ==
    /\ h_lgrants[t] = 1
    /\ minute_tokens <= rpm_limit - 1
    /\ day_tokens <= rpd_limit - 1

\* C37: failure of the generation backend leaves the cache without an entry
\* for that prompt and does not give tokens back: when call_llm ends by
\* raising, the cache entries are exactly as before the call, and
\* minute_tokens and day_tokens stay decremented by the one grant taken.
C37_FailureLeavesCache ==
    RaisedAfterBackend(Caller) =>
        /\ Digest(lprompt[Caller]) \notin DOMAIN cache
        /\ cache = h_before[Caller]
        /\ GrantKept(Caller)

\* the call that raised has written no entry: the entries are those from
\* before the call, less the prompt's own if cache.get found it expired; an
\* entry that stays for the prompt holds the empty response, live and passed
\* over by line 57
C37_FailureWritesNothing ==
    RaisedAfterBackend(Caller) =>
        LET key == Digest(lprompt[Caller])
            before == h_before[Caller]
        IN  /\ \/ cache = before
               \/ /\ key \in DOMAIN before
                  /\ cache = Without(before, {key})
                  /\ now - before[key].timestamp >= ttl
            /\ key \in DOMAIN cache => ~Truthy(cache[key].response)
            /\ GrantKept(Caller)

\* the call raised after its cache.get had deleted the prompt's expired entry
C37_Witness ==
    /\ RaisedAfterBackend(Caller)
    /\ Digest(lprompt[Caller]) \in DOMAIN h_before[Caller]
    /\ Digest(lprompt[Caller]) \notin DOMAIN cache
    /\ h_lgrants[Caller] = 1

\* ================================================================ nl_to_sql
\* nl2sql/generator.py lines 48-121, with the call_llm calls it makes
\* (llm_client.py lines 41-126) on the module's cache and limiter. One caller;
\* time passes only while acquire waits.

\* the largest max_retries passed
MaxNlRetries == 2
\* the number of nl_to_sql calls made
MaxNlCalls == 2
\* the call_llm calls one nl_to_sql call can make: two in every attempt but
\* the last, one in the last
NlLimit == 2 * MaxNlRetries + 1
Question == "How many customers?"

\* lines 67-70: generate_prompt_strategy1(question, schema, examples), whose
\* arguments are fixed before the loop (lines 55-61)
GeneratePrompt(question) == "Question: " \o question \o " SQL:"

\* the message contents the backend returns; ~~~ stands for the code fence
\* of three backquotes
FencedSelect == "~~~sql SELECT * FROM customers ~~~"
NlTexts ==
    {FencedSelect, "SELECT * FROM non_existent_table", "DROP TABLE customers", "  "}

\* prompts.py lines 114-141: the text between the code fences, else the
\* lines from the first one that starts with SELECT, else the response
ExtractSql(response) ==
    CASE response = FencedSelect -> "SELECT * FROM customers"
      [] OTHER -> response

\* the tokens of a statement text
Tokens(sql) ==
    CASE sql = "SELECT * FROM customers" -> SelectAll
      [] sql = "SELECT * FROM non_existent_table" -> SelectUnknown
      [] sql = "DROP TABLE customers" -> DropTable
      [] sql = "" -> <<>>

\* the message of validate_sql as a string: its text with the names it was
\* formatted with
MsgText(m) == m.text \o " <" \o m.a \o "> <" \o m.b \o ">"

\* generator.py lines 92-98: the f-string of the correction prompt
CorrectionPrompt(prompt, sql, error_msg) ==
    prompt \o " Previous attempt generated invalid SQL: " \o sql
           \o " Error: " \o error_msg
           \o " Please generate a corrected SQL query that fixes this error:"

\* rate_limiter.py lines 79-116 for acquire(blocking=True, timeout=to) called
\* at t0 by the only caller: the check at time t with the counts m, d of the
\* windows begun at ml, dl, after `blocked` denied checks; time.sleep(1) takes
\* one second
RECURSIVE AcqLoop(_, _, _, _, _, _, _, _)
AcqLoop(m, ml, d, dl, t, t0, to, blocked) ==
    LET mw == RefillWindow(m, ml, rpm_limit, MinuteWindow, t)
        dw == RefillWindow(d, dl, rpd_limit, DayWindow, t)
    IN  IF HasTokens(mw[1], dw[1])
        THEN [granted |-> TRUE, m |-> mw[1] - 1, ml |-> mw[2], d |-> dw[1] - 1,
              dl |-> dw[2], t |-> t, blocked |-> blocked]
        ELSE IF t - t0 >= to
             THEN [granted |-> FALSE, m |-> mw[1], ml |-> mw[2], d |-> dw[1],
                   dl |-> dw[2], t |-> t, blocked |-> blocked + 1]
             ELSE AcqLoop(mw[1], mw[2], dw[1], dw[2], t + 1, t0, to, blocked + 1)

\* what the nl_to_sql steps leave alone
nlOther ==
    <<ncalls, lock, threadVars, llmVars, schema_info, handlerVars, singletonVars,
      mwVars>>

\* generator.py lines 48-70: the call; the first attempt builds its prompt
NlCall(max_retries) ==
    /\ npc = "idle"
    /\ nlcalls < MaxNlCalls
    /\ nlcalls' = nlcalls + 1
    /\ nmax' = max_retries
    /\ nattempt' = 0
    /\ nstage' = "base"
    /\ nprompt' = GeneratePrompt(Question)
    /\ nresp' = ""
    /\ nret' = NoNlRet
    /\ npc' = "call"
    /\ h_sent' = {}
    /\ h_validated' = {}
    /\ h_attempts' = 1
    /\ UNCHANGED <<now, limiterVars, histVars, cacheVars, vret, nlOther>>

\* llm_client.py lines 56-59: cache.get(prompt) and the test of what it returned
NlLlmCall ==
    /\ npc = "call"
    /\ CacheGet(nprompt)
    /\ IF Truthy(cret'.val)
       THEN /\ nresp' = cret'.val
            /\ npc' = "got"
       ELSE /\ npc' = "acquire"
            /\ UNCHANGED nresp
    /\ UNCHANGED <<now, limiterVars, histVars, ccalls, vret, nstage, nattempt, nmax,
                   nprompt, nret, nlcalls, h_sent, h_validated, h_attempts, nlOther>>

\* llm_client.py lines 62-69: rate_limiter.acquire(blocking=True, timeout=60);
\* when it returns False, get_wait_time() and the exception
NlLlmAcquire ==
    LET r == AcqLoop(minute_tokens, minute_last_refill, day_tokens, day_last_refill,
                     now, now, LlmTimeout, 0)
        one == IF r.granted THEN 1 ELSE 0
    IN  /\ npc = "acquire"
        /\ now' = r.t
        /\ minute_tokens' = r.m
        /\ minute_last_refill' = r.ml
        /\ day_tokens' = r.d
        /\ day_last_refill' = r.dl
        /\ total_requests' = total_requests + one
        /\ total_blocked' = total_blocked + r.blocked
        /\ h_checks' = h_checks + r.blocked + one
        /\ h_grants' = h_grants + one
        /\ h_mgrants' = (IF r.ml # minute_last_refill THEN 0 ELSE h_mgrants) + one
        /\ h_dgrants' = (IF r.dl # day_last_refill THEN 0 ELSE h_dgrants) + one
        /\ grantLog' = IF r.granted THEN Latest(Append(grantLog, r.t)) ELSE grantLog
        /\ pristine' = (pristine /\ r.ml = minute_last_refill /\ r.dl = day_last_refill)
        /\ npc' = IF r.granted THEN "backend" ELSE "except"
        /\ UNCHANGED <<rpm_limit, rpd_limit, cacheVars, vret, nstage, nattempt, nmax,
                       nprompt, nresp, nret, nlcalls, h_sent, h_validated,
                       h_attempts, nlOther>>

\* llm_client.py lines 71-100: the backend is sent the prompt and, at the
\* first attempt or a later one, returns the content x: it is stripped,
\* cached and returned
NlBackendText(x) ==
    /\ npc = "backend"
    /\ CacheSet(nprompt, Strip(x))
    /\ nresp' = Strip(x)
    /\ h_sent' = h_sent \cup {nprompt}
    /\ npc' = "got"
    /\ UNCHANGED <<now, limiterVars, histVars, ccalls, vret, nstage, nattempt, nmax,
                   nprompt, nret, nlcalls, h_validated, h_attempts, nlOther>>

\* llm_client.py lines 101-124: the backend is sent the prompt and every
\* attempt fails, or one fails with a quota error: call_llm raises
NlBackendFails ==
    /\ npc = "backend"
    /\ h_sent' = h_sent \cup {nprompt}
    /\ npc' = "except"
    /\ UNCHANGED <<now, limiterVars, histVars, cacheVars, vret, nstage, nattempt,
                   nmax, nprompt, nresp, nret, nlcalls, h_validated, h_attempts,
                   nlOther>>

\* the for loop goes on with the next attempt (lines 64-70)
NextAttempt ==
    /\ nattempt' = nattempt + 1
    /\ nstage' = "base"
    /\ nprompt' = GeneratePrompt(Question)
    /\ npc' = "call"
    /\ h_attempts' = h_attempts + 1
    /\ UNCHANGED nret

\* nl_to_sql ends
NlEnds(kind, val) ==
    /\ nret' = [kind |-> kind, val |-> val]
    /\ npc' = "done"
    /\ UNCHANGED <<nattempt, nstage, nprompt, h_attempts>>

\* generator.py lines 77-112: extract_sql_from_response and validate_sql, after
\* the first call_llm of the attempt (lines 77-87, 88-100, 109-112) and after
\* the second (lines 101-107)
NlValidate(raises) ==
    LET sql == ExtractSql(nresp) IN
    /\ npc = "got"
    /\ \E result \in ValidateSql(Tokens(sql), NoTables, schema_info, raises) :
           /\ vret' = [done |-> TRUE, sql_query |-> Tokens(sql), allowed |-> NoTables,
                       raises |-> raises, result |-> result]
           /\ IF result.valid
              THEN NlEnds("return", sql)
              ELSE IF nstage = "correction"
                   THEN NextAttempt
                   ELSE IF nattempt < nmax
                        THEN /\ nstage' = "correction"
                             /\ nprompt' = CorrectionPrompt(nprompt, sql,
                                                            MsgText(result.message))
                             /\ npc' = "call"
                             /\ UNCHANGED <<nattempt, nret, h_attempts>>
                        ELSE NlEnds("return", sql)
    /\ h_validated' = IF nstage = "base" THEN h_validated \cup {sql} ELSE h_validated
    /\ UNCHANGED <<now, limiterVars, histVars, cacheVars, nmax, nresp, nlcalls,
                   h_sent, nlOther>>

\* generator.py lines 114-117: except Exception
NlExcept ==
    /\ npc = "except"
    /\ IF nattempt = nmax
       THEN NlEnds("raise", "Failed to generate SQL")
       ELSE NextAttempt
    /\ UNCHANGED <<now, limiterVars, histVars, cacheVars, vret, nmax, nresp, nlcalls,
                   h_sent, h_validated, nlOther>>

\* the caller goes on
NlReturn ==
    /\ npc = "done"
    /\ npc' = "idle"
    /\ UNCHANGED <<now, limiterVars, histVars, cacheVars, vret, nstage, nattempt,
                   nmax, nprompt, nresp, nret, nlcalls, h_sent, h_validated,
                   h_attempts, nlOther>>

NlNext ==
    \/ \E max_retries \in 0..MaxNlRetries : NlCall(max_retries)
    \/ NlLlmCall
    \/ NlLlmAcquire
    \/ \E x \in NlTexts : NlBackendText(x)
    \/ NlBackendFails
    \/ \E raises \in BOOLEAN : NlValidate(raises)
    \/ NlExcept
    \/ NlReturn

\* llm_client.py lines 32-37: the module's cache and a limiter that one
\* nl_to_sql call cannot exhaust
NlSpecInit ==
    /\ LimiterInit(NlLimit, NlLimit, 0)
    /\ CacheInit(DefaultTtl)
    /\ LlmInit
    /\ SqlInit

NlSpec == NlSpecInit /\ [][NlNext]_vars

\* the responses cached for the prompts are live
CachedResponsesLive == \A k \in DOMAIN cache : Live(now, cache[k].timestamp, ttl)

\* C38: in nl_to_sql a retry attempt re-sends the identical base prompt and the
\* identical correction prompt; while the cached responses are live, attempts
\* after the first obtain the cached responses, so for one nl_to_sql call the
\* backend is invoked for at most two distinct prompts regardless of
\* max_retries, and every attempt validates the same SQL as the first; the
\* function always terminates after at most max_retries + 1 attempts,
\* returning a string or raising.
C38_RetriesReuseResponses ==
    /\ CachedResponsesLive =>
          /\ Cardinality(h_sent) <= 2
          /\ Cardinality(h_validated) <= 1
    /\ h_attempts <= nmax + 1
    /\ npc = "done" => nret.kind \in {"return", "raise"}

\* the same holds as long as the response to the base prompt is not empty
RetriesReuseTruthyResponses ==
    /\ (CachedResponsesLive /\ "" \notin h_validated) =>
          /\ Cardinality(h_sent) <= 2
          /\ Cardinality(h_validated) <= 1
    /\ h_attempts <= nmax + 1
    /\ npc = "done" => nret.kind \in {"return", "raise"}

\* ===================================================== rate_limit_middleware
\* api/main.py lines 32-75. The middleware is a coroutine: from its first line
\* to `await call_next(request)` (line 66) it runs without giving up the event
\* loop, so the clock reading, the with block and the return of the 429
\* response are one step; the rest runs after the handler has answered.

\* the number of requests made
MaxRequests == 4
\* the largest API_RATE_LIMIT configured
MaxApiLimit == 2
\* line 48: the age below which a request time is kept
ApiWindow == 60

\* mutant of Young: the window is a second short
Young_Shorter(current_time, req_time) == current_time - req_time < ApiWindow - 1

\* line 48: current_time - req_time < 60
Young(current_time, req_time) == current_time - req_time < ApiWindow

\* lines 46-49: the list comprehension
Cleaned(times, current_time) ==
    LET Keep(req_time) == Young(current_time, req_time)
    IN  SelectSeq(times, Keep)

mwOther ==
    <<ncalls, limiterVars, lock, threadVars, histVars, cacheVars, llmVars,
      schema_info, vret, handlerVars, singletonVars, nlVars>>

\* lines 41-64: a request of client_ip arrives; it is answered with status
\* 429 or recorded and passed on to the handler
MwRequest(t, client_ip) ==
    LET current_time == now
        kept == Cleaned(api_rate_tracker[client_ip], current_time)
    IN  /\ mpc[t] = "idle"
        /\ mcalls < MaxRequests
        /\ mcalls' = mcalls + 1
        /\ mip' = [mip EXCEPT ![t] = client_ip]
        /\ IF Len(kept) >= API_RATE_LIMIT
           THEN /\ api_rate_tracker' = [api_rate_tracker EXCEPT ![client_ip] = kept]
                /\ mret' = [mret EXCEPT ![t] = [status |-> 429, remaining |-> 0]]
                /\ h_latest' = [h_latest EXCEPT ![client_ip] =
                                   [seen |-> TRUE, time |-> current_time,
                                    admitted |-> FALSE]]
                /\ UNCHANGED <<mpc, h_admitted>>
           ELSE /\ api_rate_tracker' =
                       [api_rate_tracker EXCEPT
                           ![client_ip] = Append(kept, current_time)]
                /\ mpc' = [mpc EXCEPT ![t] = "handling"]
                /\ h_admitted' = [h_admitted EXCEPT
                                     ![client_ip] = Append(@, current_time)]
                /\ h_latest' = [h_latest EXCEPT ![client_ip] =
                                   [seen |-> TRUE, time |-> current_time,
                                    admitted |-> TRUE]]
                /\ UNCHANGED mret
        /\ UNCHANGED <<now, API_RATE_LIMIT, mwOther>>

\* lines 66-75: the handler has answered; the headers are added from the
\* tracker as it is now, read without the lock
MwRespond(t) ==
    /\ mpc[t] = "handling"
    /\ mret' = [mret EXCEPT ![t] =
                   [status |-> 200,
                    remaining |-> API_RATE_LIMIT - Len(api_rate_tracker[mip[t]])]]
    /\ mpc' = [mpc EXCEPT ![t] = "idle"]
    /\ UNCHANGED <<now, API_RATE_LIMIT, api_rate_tracker, mip, mcalls, h_admitted,
                   h_latest, mwOther>>

\* time passes
MwTick ==
    /\ \E x \in Clock : x > now
    /\ now' = CHOOSE x \in Clock : x > now /\ \A y \in Clock : y > now => x <= y
    /\ UNCHANGED <<mwVars, mwOther>>

MwNext ==
    \/ MwTick
    \/ \E t \in Threads, client_ip \in Clients : MwRequest(t, client_ip)
    \/ \E t \in Threads : MwRespond(t)

\* lines 33-35 with any limit configured, 0 among them
MwSpecInit ==
    /\ LimiterInit(MaxRpm, MaxRpd, 0)
    /\ CacheInit(DefaultTtl)
    /\ LlmInit
    /\ schema_info = LowerCatalog
    /\ vret = NoValRet
    /\ HandlerInit
    /\ SingletonInit
    /\ NlInit
    /\ \E limit \in 0..MaxApiLimit : MiddlewareInit(limit)

MwSpec == MwSpecInit /\ [][MwNext]_vars

\* of the requests of ip admitted so far, the positions of those less than 60
\* seconds old at time t
YoungerAt(ip, t) ==
    {j \in 1..Len(h_admitted[ip]) :
        h_admitted[ip][j] <= t /\ t - h_admitted[ip][j] < 60}

\* the times of YoungerAt(ip, t), in the order of admission
YoungTimes(ip, t) ==
    LET Keep(x) == t - x < 60 IN SelectSeq(h_admitted[ip], Keep)

\* C39: the middleware admits at most API_RATE_LIMIT requests from one client
\* address in any 60-second interval, under any interleaving of concurrent
\* requests: a request is admitted only if fewer than API_RATE_LIMIT admitted
\* requests of that address are younger than 60 seconds, a rejected request is
\* not recorded and does not delay later admissions, and the requests of one
\* address never affect the count of another.
C39_PerClientLimit ==
    \A ip \in Clients :
        /\ \A i \in 1..Len(h_admitted[ip]) :
              Cardinality(YoungerAt(ip, h_admitted[ip][i])) <= API_RATE_LIMIT
        /\ h_latest[ip].seen =>
              /\ h_latest[ip].admitted <=>
                    Cardinality(YoungerAt(ip, h_latest[ip].time) \
                                {j \in 1..Len(h_admitted[ip]) :
                                    j = Len(h_admitted[ip]) /\ h_latest[ip].admitted})
                        < API_RATE_LIMIT
              /\ api_rate_tracker[ip] = YoungTimes(ip, h_latest[ip].time)
        /\ ~h_latest[ip].seen => api_rate_tracker[ip] = <<>>

\* one address has used up its limit and been rejected since, while a request
\* of the other address, admitted, is still being handled
C39_Witness ==
    \E ip \in Clients, other \in Clients, t \in Threads :
        /\ ip # other
        /\ API_RATE_LIMIT >= 1
        /\ Len(h_admitted[ip]) > API_RATE_LIMIT
        /\ h_latest[ip].seen /\ ~h_latest[ip].admitted
        /\ mpc[t] = "handling" /\ mip[t] = other
        /\ Len(h_admitted[other]) >= 1

\* C21: in every behaviour of call_llm the number of backend invocations of a
\* call never exceeds the number of acquire calls that returned true for it: no
\* invocation follows a denied or timed-out acquire, and one grant authorises
\* one invocation.
C21_BackendOnlyAfterGrant ==
    \A t \in Threads : h_inv[t] <= h_lgrants[t]

====
